---------------------------- MODULE Spec2Model ----------------------------
(***************************************************************************)
(* Model of the Mapbox Vector Tile driver (mvt.cpp): the command stream    *)
(* reader, the geometry builders (points, lineStrings, polygons) and the   *)
(* layer's feature iteration (ResetReading / GetNextFeature); and of the   *)
(* blending dataset's block read (BlendingDataset::RasterBand::IReadBlock) *)
(* and construction (blender.cpp); of the tile lookup in an MBTiles        *)
(* archive (mbtiles.cpp); and of the solid dataset's construction and      *)
(* config writer (solid.cpp).                                              *)
(*                                                                         *)
(* The code's std::uint32_t values (stream integers, Cursor fields,        *)
(* Command::count) are modelled as naturals below W = 2^WordBits with all  *)
(* arithmetic taken modulo W.  TLC's integers are 32 bits wide, so the     *)
(* word is modelled narrower than the code's 32 bits; wraparound, the low  *)
(* three opcode bits and the count shift behave as in the code.            *)
(***************************************************************************)
EXTENDS Integers, Sequences, FiniteSets, TLC

VARIABLES
    layer,      \* layer_.features(): the parsed features of the tile layer
    srs,        \* whether the dataset was opened with an SRS (Layer::srs_)
    trafo,      \* Layer::trafo_: shift_ and scale_, set at construction
    ifeatures,  \* Layer::ifeatures_, as a 1-based index; Len(layer)+1 is end
    ret,        \* what the last GetNextFeature call returned
    cplError,   \* last error reported through CPLError ("none" if none)
    crashed,    \* the process died in undefined behaviour
    last,       \* observation: the last call, the feature index it decoded,
                \* the exception generateGeometry raised in it and the
                \* position its reader stopped at
    yielded,    \* observation: indices of the features returned since the
                \* last ResetReading (or since construction)
    bands,      \* BlendingDataset::RasterBand::bands_: the source bands, each
                \* with its ImageReference (extents, valid)
    overlap,    \* BlendingDataset::overlap_ (width, height), in half pixels
    read,       \* what the last IReadBlock call returned and wrote, with the
                \* per-source weights it computed on the way
    blending,   \* BlendingDataset(config): the config and the sources it
                \* names, and what the constructor made of them
    mbtiles,    \* loadFromMbTilesArchive(tile, path): the path, the archive
                \* files there are, and what the call did and returned
    solid       \* SolidDataset::create(path, config): the config, where the
                \* call is, the overview list and the config file written

mvtVars == <<layer, srs, trafo, ifeatures, ret, cplError, crashed, last, yielded>>

blendVars == <<bands, overlap, read>>

otherVars == <<blending, mbtiles, solid>>

vars == <<layer, srs, trafo, ifeatures, ret, cplError, crashed, last, yielded,
          bands, overlap, read, blending, mbtiles, solid>>

(* the value of a variable whose driver takes no part *)
Idle == [pc |-> "idle"]

----------------------------------------------------------------------------
(* Bounds of the model *)

WordBits == 8
MaxFeatures == 3
MaxPoints == 3
MaxLineTo == 3
MaxParts == 3

W == 2 ^ WordBits

----------------------------------------------------------------------------
(* vector_tile::Tile_GeomType and GeometryReader::Command::Type *)

UNKNOWN == "UNKNOWN"
POINT == "POINT"
LINESTRING == "LINESTRING"
POLYGON == "POLYGON"

moveTo == 1
lineTo == 2
closePath == 7

OGRNullFID == -1

----------------------------------------------------------------------------
(* Trafo(extent, extents).  The code's doubles are kept exact: scale_ is   *)
(* the pair scale divided by per.  extents is <<>> when the dataset was    *)
(* opened without extents, else <<ll, ur>>; ul(extents) is                 *)
(* (ll.x, ur.y) and size(extents) is ur - ll.  Without extents shift_(0)   *)
(* is left unassigned; no code reads it.                                   *)
Trafo(extent, extents) ==
    IF extents # <<>>
    THEN [shift |-> <<extents[1][1], extents[2][2]>>,
          scale |-> <<extents[2][1] - extents[1][1],
                      -(extents[2][2] - extents[1][2])>>,
          per |-> extent]
    ELSE [shift |-> <<0, 1>>, scale |-> <<1, 1>>, per |-> extent]

(* the accessor left out of the build by #if 0, to the nearest integer     *)
(* below: value * scale_.width + shift_(0)                                 *)
Trafo_xScaled(value) ==
    (value * trafo.scale[1]) \div trafo.per + trafo.shift[1]

(* the two accessors in use return their argument *)
Trafo_x(value) == value

Trafo_y(value) == value

(* Cursor() : x(), y() *)
Cursor == [x |-> 0, y |-> 0]

(* Command(raw): type(raw & 0x7), count(raw >> 3) *)
Command(raw) == [type |-> raw % 8, count |-> raw \div 8]

(* GeometryReader::operator bool *)
more(source, pos) == pos <= Len(source)

(* a command() that objects to another known opcode only *)
commandKnown(source, pos, t) ==
    IF pos > Len(source)
    THEN [err |-> "CommandPastEnd", pos |-> pos, cmd |-> Command(0)]
    ELSE IF Command(source[pos]).type \in {moveTo, lineTo, closePath} \ {t}
         THEN [err |-> "UnexpectedType", pos |-> pos + 1,
               cmd |-> Command(source[pos])]
         ELSE [err |-> "none", pos |-> pos + 1, cmd |-> Command(source[pos])]

(* GeometryReader::command(type).  pos is the reader's position, 1-based.  *)
(* An exception is the err field; pos is the position when it was raised.  *)
command(source, pos, t) ==
    IF pos > Len(source)
    THEN [err |-> "CommandPastEnd", pos |-> pos, cmd |-> Command(0)]
    ELSE LET c == Command(source[pos])
         IN  IF c.type # t
             THEN [err |-> "UnexpectedType", pos |-> pos + 1, cmd |-> c]
             ELSE [err |-> "none", pos |-> pos + 1, cmd |-> c]

(* a shift that adds the first integer to y and the second to x *)
shiftSwapped(source, pos, cur) ==
    IF pos > Len(source)
    THEN [err |-> "ShiftPastEnd", pos |-> pos, cur |-> cur]
    ELSE IF pos + 1 > Len(source)
         THEN [err |-> "ShiftPastEnd", pos |-> pos + 1, cur |-> cur]
         ELSE [err |-> "none", pos |-> pos + 2,
               cur |-> [x |-> (cur.x + source[pos + 1]) % W,
                        y |-> (cur.y + source[pos]) % W]]

(* a shift that takes the second integer without looking for the end *)
shiftUnchecked(source, pos, cur) ==
    IF pos > Len(source)
    THEN [err |-> "ShiftPastEnd", pos |-> pos, cur |-> cur]
    ELSE [err |-> "none", pos |-> pos + 2,
          cur |-> [x |-> (cur.x + source[pos]) % W,
                   y |-> IF pos + 1 > Len(source) THEN cur.y
                         ELSE (cur.y + source[pos + 1]) % W]]

(* GeometryReader::shift(cursor) *)
shift(source, pos, cur) ==
    IF pos > Len(source)
    THEN [err |-> "ShiftPastEnd", pos |-> pos, cur |-> cur]
    ELSE LET cx == [cur EXCEPT !.x = (cur.x + source[pos]) % W]
         IN  IF pos + 1 > Len(source)
             THEN [err |-> "ShiftPastEnd", pos |-> pos + 1, cur |-> cx]
             ELSE [err |-> "none", pos |-> pos + 2,
                   cur |-> [cx EXCEPT !.y = (cx.y + source[pos + 1]) % W]]

(* checkAny is a check that accepts every count.                            *)
(* checkNonzero / checkSingle, applied to the outcome of command(): they   *)
(* run only when command() returned                                         *)
checkAny(c) == c

checkNonzero(c) ==
    IF c.err = "none" /\ c.cmd.count = 0
    THEN [c EXCEPT !.err = "ExpectedNonzero"]
    ELSE c

checkSingle(c) ==
    IF c.err = "none" /\ c.cmd.count # 1
    THEN [c EXCEPT !.err = "ExpectedSingle"]
    ELSE c

----------------------------------------------------------------------------
(* OGR geometries *)

NullGeometry == [kind |-> "Null"]

OGRPoint(px, py) == [kind |-> "Point", x |-> px, y |-> py]

(* outcome of a builder: a geometry, or an exception *)
Return(g, pos) == [err |-> "none", geometry |-> g, pos |-> pos]

Throw(e, pos) == [err |-> e, geometry |-> NullGeometry, pos |-> pos]

(* points(): the value of each local is handed to the next step *)

(* while (moveTo.count--) { shift; addGeometryDirectly(point) } *)
RECURSIVE pointsLoop(_, _, _, _, _)
RECURSIVE pointsAdd(_, _, _, _)
pointsAdd(source, s, count, g) ==
    IF s.err # "none"
    THEN Throw(s.err, s.pos)
    ELSE pointsLoop(source, s.pos, s.cur, count,
                    Append(g, OGRPoint(Trafo_x(s.cur.x), Trafo_y(s.cur.y))))

pointsLoop(source, pos, cur, count, g) ==
    IF count = 0
    THEN Return([kind |-> "GeometryCollection", geoms |-> g], pos)
    ELSE pointsAdd(source, shift(source, pos, cur), count - 1, g)

(* single point: gr.shift(cur); return OGRPoint(x, y) *)
pointsSingle(s) ==
    IF s.err # "none"
    THEN Throw(s.err, s.pos)
    ELSE Return(OGRPoint(Trafo_x(s.cur.x), Trafo_y(s.cur.y)), s.pos)

(* after auto moveTo(checkNonzero(gr.command(moveTo))) *)
pointsMoveTo(source, mv) ==
    IF mv.err # "none"
    THEN Throw(mv.err, mv.pos)
    ELSE IF mv.cmd.count = 1
         THEN pointsSingle(shift(source, mv.pos, Cursor))
         ELSE pointsLoop(source, mv.pos, Cursor, mv.cmd.count, <<>>)

points(source) ==
    pointsMoveTo(source, checkNonzero(command(source, 1, moveTo)))

----------------------------------------------------------------------------
(* singleLineString<Type>(gr, cur, closed) *)

(* outcome of singleLineString: the line string's points, the reader's     *)
(* position and the cursor (passed by reference), or an exception          *)
LsReturn(pts, pos, cur) == [err |-> "none", ls |-> pts, pos |-> pos, cur |-> cur]

LsThrow(e, pos, cur) == [err |-> e, ls |-> <<>>, pos |-> pos, cur |-> cur]

(* while (lineTo.count--) { gr.shift(cur); ls->addPoint(x, y); } *)
RECURSIVE lineToLoop(_, _, _, _, _)
RECURSIVE lineToAdd(_, _, _, _)
lineToAdd(source, s, count, pts) ==
    IF s.err # "none"
    THEN LsThrow(s.err, s.pos, s.cur)
    ELSE lineToLoop(source, s.pos, s.cur, count,
                    Append(pts, <<Trafo_x(s.cur.x), Trafo_y(s.cur.y)>>))

lineToLoop(source, pos, cur, count, pts) ==
    IF count = 0
    THEN LsReturn(pts, pos, cur)
    ELSE lineToAdd(source, shift(source, pos, cur), count - 1, pts)

(* a last segment drawn to the cursor instead of the start *)
closeRingAtCursor(start, body, cp) ==
    IF cp.err # "none"
    THEN LsThrow(cp.err, cp.pos, body.cur)
    ELSE LsReturn(Append(body.ls, <<Trafo_x(body.cur.x), Trafo_y(body.cur.y)>>),
                  cp.pos, body.cur)

(* a ClosePath that takes the cursor back to the start of the ring *)
closeRingToStart(start, body, cp) ==
    IF cp.err # "none"
    THEN LsThrow(cp.err, cp.pos, body.cur)
    ELSE LsReturn(Append(body.ls, <<Trafo_x(start.x), Trafo_y(start.y)>>),
                  cp.pos, start)

(* last segment: ls->addPoint(gr.x(start.x), gr.y(start.y)) *)
closeRing(start, body, cp) ==
    IF cp.err # "none"
    THEN LsThrow(cp.err, cp.pos, body.cur)
    ELSE LsReturn(Append(body.ls, <<Trafo_x(start.x), Trafo_y(start.y)>>),
                  cp.pos, body.cur)

(* if (!closed) { return ls; }  expect closePath *)
slsClose(source, start, body, closed) ==
    IF body.err # "none" \/ ~closed
    THEN body
    ELSE closeRing(start, body,
                   checkNonzero(command(source, body.pos, closePath)))

(* after auto lineTo(checkNonzero(gr.command(lineTo))); start is the       *)
(* cursor copied after the MoveTo shift, whose point is already in ls      *)
slsLineTo(source, start, lt, closed) ==
    IF lt.err # "none"
    THEN LsThrow(lt.err, lt.pos, start)
    ELSE slsClose(source, start,
                  lineToLoop(source, lt.pos, start, lt.cmd.count,
                             <<<<Trafo_x(start.x), Trafo_y(start.y)>>>>),
                  closed)

(* after gr.shift(cur); ls->addPoint(x, y); auto start(cur) *)
slsStart(source, s, closed) ==
    IF s.err # "none"
    THEN LsThrow(s.err, s.pos, s.cur)
    ELSE slsLineTo(source, s.cur,
                   checkNonzero(command(source, s.pos, lineTo)), closed)

(* after auto moveTo(checkSingle(gr.command(moveTo))) *)
slsMoveTo(source, mv, cur, closed) ==
    IF mv.err # "none"
    THEN LsThrow(mv.err, mv.pos, cur)
    ELSE slsStart(source, shift(source, mv.pos, cur), closed)

singleLineString(source, pos, cur, closed) ==
    slsMoveTo(source, checkSingle(command(source, pos, moveTo)), cur, closed)

----------------------------------------------------------------------------
(* lineStrings(gr): single and multi are the two unique_ptrs; NullGeometry *)
(* is the empty pointer                                                     *)

OGRLineString(pts) == [kind |-> "LineString", points |-> pts]

OGRLinearRing(pts) == [kind |-> "LinearRing", points |-> pts]

(* a promotion that forgets to move the first line string over *)
promoteDropsFirst(single, multi) ==
    IF single # NullGeometry
    THEN [kind |-> "MultiLineString", geoms |-> <<>>]
    ELSE multi

(* if (single) { multi.reset(new OGRMultiLineString());                    *)
(*               multi->addGeometryDirectly(single.release()); }           *)
promote(single, multi) ==
    IF single # NullGeometry
    THEN [kind |-> "MultiLineString", geoms |-> <<single>>]
    ELSE multi

RECURSIVE lineStringsLoop(_, _, _, _, _)
RECURSIVE lineStringsAdd(_, _, _)
(* single = singleLineString(gr, cur); if (multi) add single.release() *)
lineStringsAdd(source, multi, r) ==
    IF r.err # "none"
    THEN Throw(r.err, r.pos)
    ELSE IF multi # NullGeometry
         THEN lineStringsLoop(source, r.pos, r.cur, NullGeometry,
                  [multi EXCEPT !.geoms = Append(@, OGRLineString(r.ls))])
         ELSE lineStringsLoop(source, r.pos, r.cur, OGRLineString(r.ls),
                              multi)

(* while (gr) { if (single) { multi.reset(new); add single.release() } ... *)
lineStringsLoop(source, pos, cur, single, multi) ==
    IF ~more(source, pos)
    THEN \* single or multi?
         IF single # NullGeometry THEN Return(single, pos)
                                  ELSE Return(multi, pos)
    ELSE lineStringsAdd(source, promote(single, multi),
                        singleLineString(source, pos, cur, FALSE))

lineStrings(source) ==
    lineStringsLoop(source, 1, Cursor, NullGeometry, NullGeometry)

----------------------------------------------------------------------------
(* OGRLinearRing::isClockwise() (OGR library): the sign of the ring's      *)
(* signed area by Green's formula over the ring's own coordinates; a ring  *)
(* of fewer than 2 points is clockwise                                     *)

RECURSIVE greenSum(_, _)
greenSum(pts, i) ==
    IF i >= Len(pts) THEN 0
    ELSE pts[i][1] * (pts[i + 1][2] - pts[i - 1][2]) + greenSum(pts, i + 1)

isClockwise(pts) ==
    IF Len(pts) < 2 THEN TRUE
    ELSE pts[1][1] * (pts[2][2] - pts[Len(pts)][2])
           + greenSum(pts, 2)
           + pts[Len(pts)][1] * (pts[1][2] - pts[Len(pts) - 1][2]) < 0

----------------------------------------------------------------------------
(* polygons(gr) *)

(* if (!single) single.reset(new OGRPolygon()) *)
openPolygon(single) ==
    IF single = NullGeometry
    THEN [kind |-> "Polygon", rings |-> <<>>]
    ELSE single

(* multi->addGeometryDirectly(single.release()), on a multi polygon that   *)
(* is created on first need                                                *)
pushPolygon(multi, single) ==
    [kind |-> "MultiPolygon",
     geoms |-> (IF multi = NullGeometry THEN <<>> ELSE multi.geoms)
                 \o <<single>>]

(* a grouping that takes every ring for an exterior ring *)
closesPolygonAlways(ring, single) == single # NullGeometry

(* the ring that closes the polygon in progress: if (ls->isClockwise())    *)
(* { if (single) ... } *)
closesPolygon(ring, single) == isClockwise(ring) /\ single # NullGeometry

RECURSIVE polygonsLoop(_, _, _, _, _)
RECURSIVE polygonsAdd(_, _, _, _)
polygonsAdd(source, single, multi, r) ==
    IF r.err # "none"
    THEN Throw(r.err, r.pos)
    ELSE IF closesPolygon(r.ls, single)
         THEN polygonsLoop(source, r.pos, r.cur,
                  [openPolygon(NullGeometry) EXCEPT
                      !.rings = Append(@, OGRLinearRing(r.ls))],
                  pushPolygon(multi, single))
         ELSE polygonsLoop(source, r.pos, r.cur,
                  [openPolygon(single) EXCEPT
                      !.rings = Append(@, OGRLinearRing(r.ls))],
                  multi)

polygonsLoop(source, pos, cur, single, multi) ==
    IF ~more(source, pos)
    THEN \* handle last addition; single or multi?
         IF multi # NullGeometry /\ single # NullGeometry
         THEN Return(pushPolygon(multi, single), pos)
         ELSE IF single # NullGeometry THEN Return(single, pos)
                                       ELSE Return(multi, pos)
    ELSE polygonsAdd(source, single, multi,
                     singleLineString(source, pos, cur, TRUE))

polygons(source) ==
    polygonsLoop(source, 1, Cursor, NullGeometry, NullGeometry)

----------------------------------------------------------------------------
(* generateGeometry(feature, trafo) *)
generateGeometry(feature) ==
    CASE feature.type = POINT      -> points(feature.geometry)
      [] feature.type = LINESTRING -> lineStrings(feature.geometry)
      [] feature.type = POLYGON    -> polygons(feature.geometry)
      [] OTHER                     -> Return(NullGeometry, 1)

(* type(vector_tile::Tile_GeomType) *)
type(t) ==
    CASE t = POINT      -> "wkbPoint"
      [] t = LINESTRING -> "wkbLineString"
      [] t = POLYGON    -> "wkbPolygon"
      [] OTHER          -> "wkbUnknown"

----------------------------------------------------------------------------
(* MvtDataset::Layer *)

(* the OGRFeature handed to the caller, or no feature *)
OGRFeature(feature, g) ==
    [kind |-> "feature",
     fid |-> IF feature.has_id THEN feature.id ELSE OGRNullFID,
     geomType |-> type(feature.type),
     geometry |-> g]

NoFeature(k) ==
    [kind |-> k, fid |-> OGRNullFID, geomType |-> "wkbUnknown",
     geometry |-> NullGeometry]

(* pos is the reader's position (1-based, Len + 1 is end_) when the        *)
(* decode of the call returned or raised, 0 when the call decoded nothing  *)
Observed(c, i, e, p) == [call |-> c, at |-> i, err |-> e, pos |-> p]

(* a handler that catches the stream underruns only *)
CatchesUnderrun(e) == e \in {"CommandPastEnd", "ShiftPastEnd"}

(* catch (const std::exception &e): every exception the builders raise is  *)
(* a std::runtime_error                                                     *)
Catches(e) == TRUE

RECURSIVE skipUnknown(_, _)
(* an iteration that does not skip unknown features *)
skipNothing(features, i) == i

(* while (ifeatures_ != efeatures_ && ifeatures_->type() == UNKNOWN)       *)
(*     ++ifeatures_;                                                        *)
skipUnknown(features, i) ==
    IF i <= Len(features) /\ features[i].type = UNKNOWN
    THEN skipUnknown(features, i + 1)
    ELSE i

(* the position GetNextFeature leaves ifeatures_ at when the geometry of   *)
(* the feature at i raised: the handler returns before ++ifeatures_        *)
afterFailure(i) == i

(* a count of the features the iteration has not reached yet *)
featuresLeft == Len(layer) + 1 - ifeatures

(* GetFeatureCount(force) *)
GetFeatureCount == Len(layer)

(* ResetReading() *)
ResetReading ==
    /\ ~crashed
    /\ ifeatures' = 1
    /\ last' = Observed("ResetReading", 0, "none", 0)
    /\ yielded' = <<>>
    /\ UNCHANGED <<layer, srs, trafo, ret, cplError, crashed>>
    /\ UNCHANGED blendVars
    /\ UNCHANGED otherVars

(* GetNextFeature() from the try block on, g the outcome of                *)
(* generateGeometry for the feature at i.                                  *)
(* geometry->assignSpatialReference() on an empty unique_ptr is undefined  *)
(* behaviour: the process dies, or the call goes through and the feature   *)
(* is returned without a geometry.                                         *)
setGeometry(i, g) ==
    IF g.err # "none"
    THEN /\ last' = Observed("GetNextFeature", i, g.err, g.pos)
         /\ ifeatures' = afterFailure(i)
         /\ UNCHANGED <<crashed, yielded>>
         /\ IF Catches(g.err)
            THEN /\ cplError' = g.err
                 /\ ret' = NoFeature("null")
            ELSE /\ cplError' = cplError
                 /\ ret' = NoFeature("exception")
    ELSE /\ last' = Observed("GetNextFeature", i, "none", g.pos)
         /\ UNCHANGED cplError
         /\ \/ /\ g.geometry = NullGeometry /\ srs
               /\ crashed' = TRUE
               /\ UNCHANGED <<ifeatures, ret, yielded>>
            \/ /\ ifeatures' = i + 1
               /\ ret' = OGRFeature(layer[i], g.geometry)
               /\ yielded' = Append(yielded, i)
               /\ UNCHANGED crashed

(* GetNextFeature() after the loop that skips unknown features left        *)
(* ifeatures_ at i                                                         *)
nextFeatureAt(i) ==
    IF i > Len(layer)
    THEN /\ ifeatures' = i
         /\ ret' = NoFeature("null")
         /\ last' = Observed("GetNextFeature", 0, "none", 0)
         /\ UNCHANGED <<cplError, crashed, yielded>>
    ELSE setGeometry(i, generateGeometry(layer[i]))

GetNextFeature ==
    /\ ~crashed
    /\ UNCHANGED <<layer, srs, trafo>>
    /\ UNCHANGED blendVars
    /\ UNCHANGED otherVars
    /\ nextFeatureAt(skipUnknown(layer, ifeatures))

Next == GetNextFeature \/ ResetReading

----------------------------------------------------------------------------
(* BlendingDataset::RasterBand::IReadBlock (blender.cpp).                  *)
(*                                                                         *)
(* A cv::Rect is a record x, y, width, height.  The block and a source's   *)
(* ref.extents are integer rectangles, in pixels of the output grid.  A    *)
(* source's ref.valid, overlap_ and the kernel are rectangles and sizes of *)
(* doubles; the model holds them in half pixels, twice the code's value,   *)
(* so that the pixel centre x + 0.5 is the integer 2x + 1.  Samples and    *)
(* weights are doubles in the code too; the model keeps them exact, a      *)
(* weight as a fraction n / d, and does not model the rounding of double   *)
(* arithmetic.                                                             *)

BlockSize == 2

(* nBlockXSize = 256; nBlockYSize = 256: the model's block is smaller *)
nBlockXSize == BlockSize

nBlockYSize == BlockSize

CE_None == "CE_None"

CE_Failure == "CE_Failure"

Max(a, b) == IF a >= b THEN a ELSE b

Min(a, b) == IF a <= b THEN a ELSE b

Rect(x, y, w, h) == [x |-> x, y |-> y, width |-> w, height |-> h]

(* cv::Rect_::area() *)
area(r) == r.width * r.height

(* cv::Rect_ from two corners, Rect_() when it would not have an interior *)
RectOf(x1, y1, x2, y2) ==
    IF x2 - x1 <= 0 \/ y2 - y1 <= 0
    THEN Rect(0, 0, 0, 0)
    ELSE Rect(x1, y1, x2 - x1, y2 - y1)

(* cv::Rect_ operator & *)
RectAnd(a, b) ==
    RectOf(Max(a.x, b.x), Max(a.y, b.y),
           Min(a.x + a.width, b.x + b.width),
           Min(a.y + a.height, b.y + b.height))

(* cv::Rect_::contains(pt) *)
contains(r, px, py) ==
    /\ r.x <= px /\ px < r.x + r.width
    /\ r.y <= py /\ py < r.y + r.height

(* math::empty(size) *)
empty(size) == size.width <= 0 \/ size.height <= 0

(* the pixels <<i, j>> (column, row) of an image of the given size *)
Pixels(width, height) == (0..(width - 1)) \X (0..(height - 1))

(* cv::Rect block(nBlockXOff * nBlockXSize, nBlockYOff * nBlockYSize, ...) *)
block(nBlockXOff, nBlockYOff) ==
    Rect(nBlockXOff * nBlockXSize, nBlockYOff * nBlockYSize,
         nBlockXSize, nBlockYSize)

(* const auto local(roi - band.ref.extents.tl()) *)
local(roi, extents) ==
    Rect(roi.x - extents.x, roi.y - extents.y, roi.width, roi.height)

(* origin(roi.tl() - block.tl()); view(origin.x, origin.y, local.width,    *)
(* local.height)                                                           *)
view(roi, blk) == Rect(roi.x - blk.x, roi.y - blk.y, roi.width, roi.height)

(* band.band->RasterIO(GF_Read, local.x, local.y, local.width,             *)
(* local.height, ..., GDT_Float64, ...): the window of a raster as doubles *)
RasterIO(raster, loc) ==
    [px \in Pixels(loc.width, loc.height) |->
        raster[<<loc.x + px[1], loc.y + px[2]>>]]

(* for (auto &px : weights) { if (px) { px = 1.0; } } *)
maskWeight(m) == IF m # 0 THEN 1 ELSE m

(* exact fractions n / d, d > 0, in lowest terms *)
RECURSIVE GCD(_, _)
GCD(a, b) == IF b = 0 THEN a ELSE GCD(b, a % b)

Abs(a) == IF a < 0 THEN -a ELSE a

Frac(n, d) == [n |-> n \div GCD(Abs(n), d), d |-> d \div GCD(Abs(n), d)]

Add(a, b) == Frac(a.n * b.d + b.n * a.d, a.d * b.d)

Mul(a, b) == Frac(a.n * b.n, a.d * b.d)

(* a / b for b > 0 *)
Div(a, b) == Frac(a.n * b.d, a.d * b.n)

(* Image weights(local.size(), 1.0), replaced by the mask band's window    *)
(* when the band is not flagged GMF_ALL_VALID                              *)
baseWeights(band, loc) ==
    IF band.allValid
    THEN [px \in Pixels(loc.width, loc.height) |-> 1]
    ELSE [px \in Pixels(loc.width, loc.height) |->
             maskWeight(band.mask[<<loc.x + px[1], loc.y + px[2]>>])]

(* a test of the pixel's corner (roi.x + i, roi.y + j) in place of its     *)
(* centre                                                                  *)
hardWeightCorner(valid, roi, px, w) ==
    IF contains(valid, 2 * (roi.x + px[1]), 2 * (roi.y + px[2]))
    THEN Frac(w, 1)
    ELSE Frac(0, 1)

(* if (!valid.contains(pp)) { weights(j, i) = 0.0; } with pp the centre   *)
(* (roi.x + i + 0.5, roi.y + j + 0.5) of pixel px = <<i, j>>               *)
hardWeight(valid, roi, px, w) ==
    IF contains(valid, 2 * (roi.x + px[1]) + 1, 2 * (roi.y + px[2]) + 1)
    THEN Frac(w, 1)
    ELSE Frac(0, 1)

(* cv::Rect2d k(roi.x - overlap.width + 0.5, roi.y - overlap.height + 0.5, *)
(* overlap.width * 2, overlap.height * 2), moved by i and j                *)
kernel(roi, ov, px) ==
    Rect(2 * (roi.x + px[1]) - ov.width + 1,
         2 * (roi.y + px[2]) - ov.height + 1,
         2 * ov.width, 2 * ov.height)

(* const auto kernelArea(4 * math::area(overlap)) *)
kernelArea(ov) == 4 * area(ov)

(* a feather that leaves the weight as it is wherever the kernel meets the *)
(* valid rectangle                                                         *)
softWeightAny(valid, roi, ov, px, w) ==
    IF area(RectAnd(valid, kernel(roi, ov, px))) > 0
    THEN Frac(w, 1)
    ELSE Frac(0, 1)

(* weights(j, i) *= ((valid & kernel).area() / kernelArea) *)
softWeight(valid, roi, ov, px, w) ==
    Frac(w * area(RectAnd(valid, kernel(roi, ov, px))), kernelArea(ov))

(* if (math::empty(overlap)) { ... } else { ... } *)
policy(valid, roi, ov, base) ==
    IF empty(ov)
    THEN [px \in DOMAIN base |-> hardWeight(valid, roi, px, base[px])]
    ELSE [px \in DOMAIN base |-> softWeight(valid, roi, ov, px, base[px])]

(* what one pass of the loop over bands_ made of its source: nothing when  *)
(* the source does not meet the block, a failed read, or the window read   *)
(* with its base weights (from the mask) and its weights (after the        *)
(* policy)                                                                 *)
Skipped ==
    [kind |-> "skipped", err |-> CE_None, roi |-> Rect(0, 0, 0, 0),
     image |-> <<>>, base |-> <<>>, weights |-> <<>>]

Failed(e, roi) ==
    [kind |-> "failed", err |-> e, roi |-> roi,
     image |-> <<>>, base |-> <<>>, weights |-> <<>>]

Weighted(roi, image, base, weights) ==
    [kind |-> "read", err |-> CE_None, roi |-> roi,
     image |-> image, base |-> base, weights |-> weights]

(* the loop body from "compute weight for each pixel" on *)
applyPolicy(b, roi, loc, ov, base) ==
    Weighted(roi, RasterIO(b.band.data, loc), base,
             policy(b.ref.valid, roi, ov, base))

(* the loop body from the first RasterIO on *)
readWindow(b, roi, loc, ov) ==
    IF b.band.err # CE_None
    THEN Failed(b.band.err, roi)
    ELSE IF ~b.band.allValid /\ b.band.maskErr # CE_None
         THEN Failed(b.band.maskErr, roi)
         ELSE applyPolicy(b, roi, loc, ov, baseWeights(b.band, loc))

(* auto roi(block & band.ref.extents); if (!roi.area()) { continue; } *)
readRoi(b, roi, ov) ==
    IF area(roi) = 0
    THEN Skipped
    ELSE readWindow(b, roi, local(roi, b.ref.extents), ov)

readBand(b, blk, ov) == readRoi(b, RectAnd(blk, b.ref.extents), ov)

(* cv::multiply(image, weights, image); Image(acc, view) += image *)
addImage(acc, c, vw) ==
    [p \in DOMAIN acc |->
        IF contains(vw, p[1], p[2])
        THEN Add(acc[p],
                 Mul(Frac(c.image[<<p[1] - vw.x, p[2] - vw.y>>], 1),
                     c.weights[<<p[1] - vw.x, p[2] - vw.y>>]))
        ELSE acc[p]]

(* Image(wacc, view) += weights *)
addWeights(wacc, c, vw) ==
    [p \in DOMAIN wacc |->
        IF contains(vw, p[1], p[2])
        THEN Add(wacc[p], c.weights[<<p[1] - vw.x, p[2] - vw.y>>])
        ELSE wacc[p]]

(* the accumulators, the per-source outcomes so far and the error that     *)
(* ended the loop, if any                                                  *)
Accumulated(acc, wacc, sources, err) ==
    [acc |-> acc, wacc |-> wacc, sources |-> sources, err |-> err]

(* for (auto &band : bands_) { ... } from band k on *)
RECURSIVE forBands(_, _, _, _, _)
RECURSIVE addBand(_, _, _, _, _, _)
addBand(bs, k, blk, ov, a, c) ==
    CASE c.kind = "failed" ->
             Accumulated(a.acc, a.wacc, Append(a.sources, c), c.err)
      [] c.kind = "skipped" ->
             forBands(bs, k + 1, blk, ov,
                      Accumulated(a.acc, a.wacc, Append(a.sources, c), a.err))
      [] OTHER ->
             forBands(bs, k + 1, blk, ov,
                      Accumulated(addImage(a.acc, c, view(c.roi, blk)),
                                  addWeights(a.wacc, c, view(c.roi, blk)),
                                  Append(a.sources, c), a.err))

forBands(bs, k, blk, ov, a) ==
    IF k > Len(bs)
    THEN a
    ELSE addBand(bs, k, blk, ov, a, readBand(bs[k], blk, ov))

(* Image acc(nBlockXSize, nBlockYSize, 0.0): that many rows and columns *)
zeros == [p \in Pixels(nBlockYSize, nBlockXSize) |-> Frac(0, 1)]

(* a weighted sum left undivided *)
normalizeNot(a, w) == a

(* wacc.setTo(1.0, (wacc == 0.0)); acc /= wacc, for one pixel *)
normalize(a, w) == IF w.n = 0 THEN Div(a, Frac(1, 1)) ELSE Div(a, w)

(* gdal2cv(type); "unsupported" is the std::logic_error of the default     *)
gdal2cv(t) ==
    CASE t = "GDT_Byte"    -> "CV_8UC1"
      [] t = "GDT_UInt16"  -> "CV_16UC1"
      [] t = "GDT_Int16"   -> "CV_16SC1"
      [] t = "GDT_UInt32"  -> "CV_32SC1"
      [] t = "GDT_Int32"   -> "CV_32SC1"
      [] t = "GDT_Float32" -> "CV_32FC1"
      [] t = "GDT_Float64" -> "CV_64FC1"
      [] OTHER             -> "unsupported"

(* the values of an integer cv depth.  The 32 bit depth is modelled        *)
(* WordBits wide, like the 32 bit words of the tile decoder.               *)
lowest(cv) ==
    CASE cv = "CV_16SC1" -> -32768
      [] cv = "CV_32SC1" -> -(W \div 2)
      [] OTHER           -> 0

highest(cv) ==
    CASE cv = "CV_8UC1"  -> 255
      [] cv = "CV_16UC1" -> 65535
      [] cv = "CV_16SC1" -> 32767
      [] OTHER           -> W \div 2 - 1

(* cvRound(double): to the nearest integer, halves to the even one *)
roundEven(fl, twice, d) ==
    IF twice < d \/ (twice = d /\ fl % 2 = 0) THEN fl ELSE fl + 1

cvRound(v) == roundEven(v.n \div v.d, 2 * (v.n - (v.n \div v.d) * v.d), v.d)

(* cv::saturate_cast to an integer depth.  To 8 and 16 bits the rounded    *)
(* value is clamped.  To 32 bits it is cvRound alone, whose result for a   *)
(* double outside int is not defined: o stands for what the build gives.   *)
saturate(i, cv, o) ==
    IF cv = "CV_32SC1"
    THEN IF i < lowest(cv) \/ i > highest(cv) THEN o ELSE i
    ELSE Max(lowest(cv), Min(highest(cv), i))

(* the integer the reader of the block finds: a GDT_UInt32 block holds the *)
(* bits of the int written                                                 *)
stored(t, i) == IF t = "GDT_UInt32" THEN i % W ELSE i

(* acc.convertTo(out, type), for one pixel *)
convertTo(v, t, o) ==
    IF gdal2cv(t) \in {"CV_32FC1", "CV_64FC1"}
    THEN v
    ELSE Frac(stored(t, saturate(cvRound(v), gdal2cv(t), o)), 1)

(* the outcome of a call: the CPLErr returned (or the exception thrown),   *)
(* the per-source outcomes, the weight totals before the zeros are set to  *)
(* one, acc after the division, and the block written                      *)
Read(x, y, e, sources, wacc, acc, out) ==
    [xoff |-> x, yoff |-> y, ret |-> e, sources |-> sources,
     wacc |-> wacc, acc |-> acc, out |-> out]

NoRead == Read(0, 0, "none", <<>>, <<>>, <<>>, <<>>)

(* from wacc.setTo on, given the normalized accumulator *)
copyOut(x, y, a, acc, t, o) ==
    IF gdal2cv(t) = "unsupported"
    THEN Read(x, y, "logic_error", a.sources, a.wacc, acc, <<>>)
    ELSE Read(x, y, CE_None, a.sources, a.wacc, acc,
              [p \in DOMAIN acc |-> convertTo(acc[p], t, o)])

(* after the loop over bands_: if (err != CE_None) { return err; } left it *)
afterBands(x, y, a, t, o) ==
    IF a.err # CE_None
    THEN Read(x, y, a.err, a.sources, <<>>, <<>>, <<>>)
    ELSE copyOut(x, y, a,
                 [p \in DOMAIN a.acc |-> normalize(a.acc[p], a.wacc[p])],
                 t, o)

(* what cvRound may give for a double outside int: the smallest int (the   *)
(* x86 conversion's indefinite value) or the largest (a saturating one).   *)
(* Only the conversion to 32 bits looks at it.                             *)
Indefinite(t) ==
    IF gdal2cv(t) = "CV_32SC1" THEN {-(W \div 2), W \div 2 - 1} ELSE {0}

(* the raster's size in pixels (nRasterYSize = dset->nRasterXSize), and the *)
(* blocks it is divided into                                               *)
RasterSize == 4

nRasterXSize == RasterSize

nRasterYSize == nRasterXSize

Blocks(size, blockSize) == 0..((size + blockSize - 1) \div blockSize - 1)

(* IReadBlock(nBlockXOff, nBlockYOff, rawImage) *)
IReadBlock(nBlockXOff, nBlockYOff) ==
    /\ \E o \in Indefinite(bands[1].band.type) :
          read' = afterBands(nBlockXOff, nBlockYOff,
                             forBands(bands, 1, block(nBlockXOff, nBlockYOff),
                                      overlap,
                                      Accumulated(zeros, zeros, <<>>, CE_None)),
                             bands[1].band.type, o)
    /\ UNCHANGED <<bands, overlap>>
    /\ UNCHANGED mvtVars
    /\ UNCHANGED otherVars

NextBlend ==
    \E nBlockXOff \in Blocks(nRasterXSize, nBlockXSize),
       nBlockYOff \in Blocks(nRasterYSize, nBlockYSize) :
        IReadBlock(nBlockXOff, nBlockYOff)


----------------------------------------------------------------------------
(* Inputs.  Cmd packs a command integer the way Command unpacks it.        *)

Cmd(op, count) == count * 8 + op

RECURSIVE Flatten(_)
Flatten(pairs) ==
    IF pairs = <<>> THEN <<>>
    ELSE <<pairs[1][1], pairs[1][2]>> \o Flatten(Tail(pairs))

(* one MoveTo(1) + LineTo(k) [+ ClosePath(1)] sequence *)
PartStream(part, closed) ==
    <<Cmd(moveTo, 1)>> \o part.start
      \o <<Cmd(lineTo, Len(part.moves))>> \o Flatten(part.moves)
      \o (IF closed THEN <<Cmd(closePath, 1)>> ELSE <<>>)

RECURSIVE PartsStream(_, _)
PartsStream(parts, closed) ==
    IF parts = <<>> THEN <<>>
    ELSE PartStream(parts[1], closed) \o PartsStream(Tail(parts), closed)

East == <<4, 0>>
South == <<0, 4>>
West == <<W - 4, 0>>
North == <<0, W - 4>>

Moves == {East, South, West, North}

(* every part of up to MaxLineTo axis moves *)
FullParts ==
    {[start |-> s, moves |-> m] :
        s \in {<<0, 0>>, <<1, 1>>},
        m \in UNION {[1..k -> Moves] : k \in 1..MaxLineTo}}

(* parts for features of several parts: the square (0,0) (4,0) (4,4) (0,4) *)
(* from cursor (0,0), the same square entered from cursor (0,4), the       *)
(* reverse traversal from (0,4), two triangles, a part of one segment, a   *)
(* part that wraps below zero                                              *)
Shapes ==
    {[start |-> <<0, 0>>, moves |-> <<East, South, West>>],
     [start |-> <<0, W - 4>>, moves |-> <<East, South, West>>],
     [start |-> <<0, 0>>, moves |-> <<East, North, West>>],
     [start |-> <<1, 1>>, moves |-> <<East, South>>],
     [start |-> <<1, 1>>, moves |-> <<South, East>>],
     [start |-> <<2, 0>>, moves |-> <<East>>],
     [start |-> <<W - 1, W - 1>>, moves |-> <<South, East>>]}

MultiParts == UNION {[1..n -> Shapes] : n \in 1..MaxParts}

(* streams cut short, and streams with one integer replaced *)
Truncations(st) == {SubSeq(st, 1, n) : n \in 0..(Len(st) - 1)}

BadRaw ==
    {0, Cmd(moveTo, 0), Cmd(moveTo, 2), Cmd(lineTo, 0), Cmd(lineTo, 1),
     Cmd(closePath, 0), Cmd(closePath, 2), 3}

Substitutions(st) ==
    {[st EXCEPT ![i] = v] : i \in 1..Len(st), v \in BadRaw}

Malformed(st) == Truncations(st) \cup Substitutions(st)

(* a feature of two parts, to go wrong in its second part *)
TwoParts ==
    <<[start |-> <<0, 0>>, moves |-> <<East, South>>],
      [start |-> <<1, 1>>, moves |-> <<South>>]>>

PartStreams(closed) ==
    {PartStream(p, closed) : p \in FullParts}
      \cup {PartsStream(ps, closed) : ps \in MultiParts}
      \cup UNION {Malformed(PartStream(p, closed)) : p \in Shapes}
      \cup Malformed(PartsStream(TwoParts, closed))

PointDeltas == {1, W - 1}

PointStreams ==
    {<<Cmd(moveTo, n)>> \o Flatten(p) \o t :
        n \in 0..MaxPoints,
        p \in UNION {[1..m -> PointDeltas \X PointDeltas] : m \in 0..MaxPoints},
        t \in {<<>>, <<1>>}}
      \cup {<<>>, <<Cmd(lineTo, 1), 1, 1>>, <<Cmd(closePath, 1), 1, 1>>,
            <<3, 1, 1>>}

Feature(t, st) == [type |-> t, has_id |-> FALSE, id |-> 0, geometry |-> st]

GeometryFeatures ==
    {Feature(POINT, st) : st \in PointStreams}
      \cup {Feature(LINESTRING, st) : st \in PartStreams(FALSE)}
      \cup {Feature(POLYGON, st) : st \in PartStreams(TRUE)}

(* the features a layer of the iteration model is made of *)
LayerFeatures ==
    {[type |-> UNKNOWN, has_id |-> TRUE, id |-> 5, geometry |-> <<9, 1, 1>>],
     [type |-> POINT, has_id |-> TRUE, id |-> 7, geometry |-> <<9, 2, 2>>],
     Feature(POINT, <<17, 2, 2, 1, 1>>),
     Feature(LINESTRING, <<9, 0, 0, 18, 4, 0, 0, 4>>),
     Feature(POLYGON, <<9, 0, 0, 18, 4, 0, 0, 4, 15>>),
     Feature(POINT, <<9, 2>>),
     Feature(LINESTRING, <<9, 0, 0, 15>>),
     Feature(POLYGON, <<9, 0, 0, 2>>),
     Feature(LINESTRING, <<>>)}

Layers == UNION {[1..n -> LayerFeatures] : n \in 0..MaxFeatures}

(* the layer's declared extent and the extents the dataset was opened with *)
LayerExtents == {4, 8}

DatasetExtents == {<<>>, <<<<0, 0>>, <<8, 16>>>>}

(* Layer(ds, layer): trafo_(layer_.extent(), ds_.extents_) *)
InitLayer(layers) ==
    /\ layer \in layers
    /\ srs \in BOOLEAN
    /\ trafo \in {Trafo(e, x) : e \in LayerExtents, x \in DatasetExtents}
    /\ ifeatures = 1
    /\ ret = NoFeature("none")
    /\ cplError = "none"
    /\ crashed = FALSE
    /\ last = Observed("none", 0, "none", 0)
    /\ yielded = <<>>
    /\ bands = <<>>
    /\ overlap = [width |-> 0, height |-> 0]
    /\ read = NoRead
    /\ blending = Idle
    /\ mbtiles = Idle
    /\ solid = Idle

(* a layer of up to MaxFeatures features, iterated *)
Init == InitLayer(Layers)

Spec == Init /\ [][Next]_vars

(* a layer of one feature, drawn from the geometry inputs *)
InitGeometry == InitLayer({<<f>> : f \in GeometryFeatures})

SpecGeometry == InitGeometry /\ [][Next]_vars

----------------------------------------------------------------------------
(* Inputs of the blending dataset *)

MaxSources == 2

(* the mask band of a source: 255 (valid) in columns 0, 3, ..., 128 in     *)
(* columns 1, 4, ..., 0 (not valid) in the others                          *)
MaskValue(i) ==
    CASE i % 3 = 0 -> 255
      [] i % 3 = 1 -> 128
      [] OTHER     -> 0

(* a source placed at extents (pixels) with the valid rectangle valid      *)
(* (half pixels), of data type t; its samples are base + i + 2j            *)
SourceBand(extents, valid, t, allValid, base, err, maskErr) ==
    [band |-> [type |-> t, allValid |-> allValid,
               data |-> [px \in Pixels(extents.width, extents.height) |->
                            base + px[1] + 2 * px[2]],
               mask |-> [px \in Pixels(extents.width, extents.height) |->
                            MaskValue(px[1])],
               err |-> err, maskErr |-> maskErr],
     ref |-> [extents |-> extents, valid |-> valid]]

(* the whole of a placement, in half pixels *)
Whole(extents) ==
    Rect(2 * extents.x, 2 * extents.y, 2 * extents.width, 2 * extents.height)

SourceBands ==
    {SourceBand(Rect(0, 0, 2, 2), Whole(Rect(0, 0, 2, 2)), "GDT_Byte", TRUE, 10,
            CE_None, CE_None),
     SourceBand(Rect(1, 1, 2, 2), Whole(Rect(1, 1, 2, 2)), "GDT_Byte", FALSE, 40,
            CE_None, CE_None),
     SourceBand(Rect(1, 0, 3, 2), Rect(2, 0, 3, 4), "GDT_Byte", TRUE, 30,
            CE_None, CE_None),
     SourceBand(Rect(0, 0, 4, 4), Rect(3, 0, 5, 8), "GDT_Float64", TRUE, 5,
            CE_None, CE_None),
     SourceBand(Rect(0, 0, 4, 4), Whole(Rect(0, 0, 4, 4)), "GDT_Float64", FALSE, 7,
            CE_None, CE_None),
     SourceBand(Rect(0, 0, 4, 4), Whole(Rect(0, 0, 4, 4)), "GDT_UInt32", TRUE,
            W - 10, CE_None, CE_None),
     SourceBand(Rect(0, 0, 4, 4), Whole(Rect(0, 0, 4, 4)), "GDT_Int32", TRUE,
            -(W \div 2), CE_None, CE_None),
     SourceBand(Rect(0, 0, 2, 2), Whole(Rect(0, 0, 2, 2)), "GDT_CInt16", TRUE, 3,
            CE_None, CE_None),
     SourceBand(Rect(1, 1, 2, 2), Whole(Rect(1, 1, 2, 2)), "GDT_Byte", TRUE, 50,
            CE_Failure, CE_None),
     SourceBand(Rect(1, 1, 2, 2), Whole(Rect(1, 1, 2, 2)), "GDT_Byte", FALSE, 60,
            CE_None, CE_Failure)}

(* overlap_ = config.overlap * resolution, in half pixels *)
Overlaps ==
    {[width |-> 0, height |-> 0], [width |-> 1, height |-> 1],
     [width |-> 2, height |-> 4]}

(* BlendingDataset(config): one RasterBand over the bands of the sources.  *)
(* The tile layer's variables take no part.                                *)
InitBlend ==
    /\ bands \in UNION {[1..n -> SourceBands] : n \in 1..MaxSources}
    /\ overlap \in Overlaps
    /\ read = NoRead
    /\ layer = <<>>
    /\ srs = FALSE
    /\ trafo = Trafo(4, <<>>)
    /\ ifeatures = 1
    /\ ret = NoFeature("none")
    /\ cplError = "none"
    /\ crashed = FALSE
    /\ last = Observed("none", 0, "none", 0)
    /\ yielded = <<>>
    /\ blending = Idle
    /\ mbtiles = Idle
    /\ solid = Idle

SpecBlend == InitBlend /\ [][NextBlend]_vars

----------------------------------------------------------------------------
(* Feature iteration: C1, C2, C3 *)

(* generateGeometry produces a geometry for the feature *)
Decodes(f) ==
    /\ generateGeometry(f).err = "none"
    /\ generateGeometry(f).geometry # NullGeometry

AllDecode ==
    \A i \in 1..Len(layer) : layer[i].type # UNKNOWN => Decodes(layer[i])

(* the indices below n of the features whose type is not Unknown, in order *)
RECURSIVE KnownBelow(_)
KnownBelow(n) ==
    IF n <= 1 THEN <<>>
    ELSE IF layer[n - 1].type # UNKNOWN
         THEN Append(KnownBelow(n - 1), n - 1)
         ELSE KnownBelow(n - 1)

FailedCall == last.call = "GetNextFeature" /\ last.err # "none"

(* C1: a GetNextFeature call whose geometry construction failed on the     *)
(* feature at the cursor leaves the cursor past that feature, so that the  *)
(* next call goes on with the features after it.                           *)
C1_FailedFeatureIsSkipped == FailedCall => ifeatures > last.at

(* C2: on a layer whose features all decode, the features returned since   *)
(* the last ResetReading (or since construction) are exactly the           *)
(* non-Unknown features before the cursor, each once, in layer order; a    *)
(* call returns the feature it decoded, with its id, type and geometry;    *)
(* null is returned only with the cursor at the end and every non-Unknown  *)
(* feature returned; ResetReading puts the cursor back on the first        *)
(* feature with nothing returned yet.                                      *)
C2_IterationYieldsKnownInOrder ==
    AllDecode =>
        /\ ~crashed
        /\ ifeatures \in 1..(Len(layer) + 1)
        /\ yielded = KnownBelow(ifeatures)
        /\ last.call = "ResetReading" => ifeatures = 1 /\ yielded = <<>>
        /\ last.call = "GetNextFeature" /\ last.at # 0 =>
              /\ ifeatures = last.at + 1
              /\ layer[last.at].type # UNKNOWN
              /\ ret.kind = "feature"
              /\ ret.geomType = type(layer[last.at].type)
              /\ ret.fid = (IF layer[last.at].has_id THEN layer[last.at].id
                            ELSE OGRNullFID)
              /\ ret.geometry = generateGeometry(layer[last.at]).geometry
        /\ last.call = "GetNextFeature" /\ last.at = 0 =>
              /\ ret.kind = "null"
              /\ ifeatures = Len(layer) + 1
              /\ yielded = KnownBelow(Len(layer) + 1)

C2_Witness ==
    /\ AllDecode
    /\ Len(layer) = 3
    /\ layer[1].type = UNKNOWN /\ layer[2].type = POINT
    /\ layer[3].type = POLYGON
    /\ last.call = "GetNextFeature" /\ ret.kind = "null"
    /\ yielded = <<2, 3>>

(* C3: a GetNextFeature call in which the geometry construction raised     *)
(* (stream underrun, unexpected opcode, invalid count) returns null and    *)
(* has reported that error through CPLError; nothing propagates and the    *)
(* process lives on.                                                       *)
C3_DecodeErrorReturnsNull ==
    FailedCall =>
        /\ last.err \in {"CommandPastEnd", "ShiftPastEnd", "UnexpectedType",
                         "ExpectedNonzero", "ExpectedSingle"}
        /\ ret.kind = "null"
        /\ cplError = last.err
        /\ ~crashed

C3_Witness ==
    /\ FailedCall
    /\ last.err = "UnexpectedType"
    /\ layer[last.at].type = POLYGON
    /\ ret.kind = "null"

----------------------------------------------------------------------------
(* Geometry of one feature: C4 .. C10, on the layers of one feature.       *)
(* Decoded: the last call was GetNextFeature on that feature, so ret is    *)
(* what the layer made of its command stream.                              *)

Decoded == last.call = "GetNextFeature" /\ last.at = 1

Source == layer[1].geometry

(* the stream is MoveTo(N), N >= 1, followed by N parameter pairs *)
WellFormedPoints(st) ==
    /\ Len(st) >= 1
    /\ st[1] % 8 = moveTo
    /\ st[1] \div 8 >= 1
    /\ Len(st) = 1 + 2 * (st[1] \div 8)

PointFeature == Decoded /\ layer[1].type = POINT /\ WellFormedPoints(Source)

(* the sum of the c-th halves of the first i parameter pairs *)
RECURSIVE ParameterSum(_, _, _)
ParameterSum(st, i, c) ==
    IF i = 0 THEN 0 ELSE st[2 * i - 1 + c] + ParameterSum(st, i - 1, c)

(* the coordinates a point geometry holds, in order *)
PointCoords(g) ==
    IF g.kind = "Point" THEN <<<<g.x, g.y>>>>
    ELSE [i \in 1..Len(g.geoms) |-> <<g.geoms[i].x, g.geoms[i].y>>]

(* C4: a Point feature MoveTo(N) + N pairs decodes to exactly N            *)
(* coordinates, the i-th being the sum of the first i parameter pairs.     *)
C4_PointsAreParameterSums ==
    PointFeature =>
        /\ ret.kind = "feature"
        /\ Len(PointCoords(ret.geometry)) = Source[1] \div 8
        /\ \A i \in 1..(Source[1] \div 8) :
              PointCoords(ret.geometry)[i] =
                  <<ParameterSum(Source, i, 1), ParameterSum(Source, i, 2)>>

(* C5: the geometry of a Point feature is a Point for count 1 and a        *)
(* MultiPoint of one Point per shift for a count above 1.                  *)
C5_PointOrMultiPoint ==
    PointFeature =>
        /\ ret.kind = "feature"
        /\ Source[1] \div 8 = 1 => ret.geometry.kind = "Point"
        /\ Source[1] \div 8 > 1 =>
              /\ ret.geometry.kind = "MultiPoint"
              /\ Len(ret.geometry.geoms) = Source[1] \div 8
              /\ \A i \in 1..Len(ret.geometry.geoms) :
                    ret.geometry.geoms[i].kind = "Point"

(* The stream from position p on is a sequence of MoveTo(1) + LineTo(k),   *)
(* k >= 1, each followed by a ClosePath of nonzero count when closed.      *)
RECURSIVE WellFormedParts(_, _, _)
WellFormedParts(st, p, closed) ==
    IF p > Len(st) THEN TRUE
    ELSE /\ p + 3 <= Len(st)
         /\ st[p] = Cmd(moveTo, 1)
         /\ st[p + 3] % 8 = lineTo
         /\ st[p + 3] \div 8 >= 1
         /\ p + 3 + 2 * (st[p + 3] \div 8) + (IF closed THEN 1 ELSE 0)
               <= Len(st)
         /\ closed =>
               /\ st[p + 4 + 2 * (st[p + 3] \div 8)] % 8 = closePath
               /\ st[p + 4 + 2 * (st[p + 3] \div 8)] \div 8 >= 1
         /\ WellFormedParts(st,
               p + 4 + 2 * (st[p + 3] \div 8) + (IF closed THEN 1 ELSE 0),
               closed)

(* the cursor positions after each of k shifts read from position q *)
RECURSIVE CursorPath(_, _, _, _)
CursorPath(st, q, k, c) ==
    IF k = 0 THEN <<>>
    ELSE <<<<(c[1] + st[q]) % W, (c[2] + st[q + 1]) % W>>>>
           \o CursorPath(st, q + 2, k - 1,
                         <<(c[1] + st[q]) % W, (c[2] + st[q + 1]) % W>>)

(* The vertex lists of the parts of a well-formed stream, the cursor       *)
(* carried from part to part: the position after the MoveTo shift, the     *)
(* positions after the LineTo shifts and, when closed, the first again.    *)
RECURSIVE PartVertices(_, _, _, _)
PartVertices(st, p, c, closed) ==
    IF p > Len(st) THEN <<>>
    ELSE LET k == st[p + 3] \div 8
             path == CursorPath(st, p + 1, 1, c)
                       \o CursorPath(st, p + 4, k, CursorPath(st, p + 1, 1, c)[1])
         IN  <<path \o (IF closed THEN <<path[1]>> ELSE <<>>)>>
               \o PartVertices(st, p + 4 + 2 * k + (IF closed THEN 1 ELSE 0),
                               path[k + 1], closed)

PolygonFeature ==
    /\ Decoded /\ layer[1].type = POLYGON
    /\ Source # <<>> /\ WellFormedParts(Source, 1, TRUE)

LineFeature ==
    /\ Decoded /\ layer[1].type = LINESTRING
    /\ Source # <<>> /\ WellFormedParts(Source, 1, FALSE)

(* the polygons of a polygon geometry, and all their rings in order *)
PolygonsOf(g) == IF g.kind = "MultiPolygon" THEN g.geoms ELSE <<g>>

RECURSIVE RingsOf(_)
RingsOf(polys) ==
    IF polys = <<>> THEN <<>>
    ELSE [i \in 1..Len(polys[1].rings) |-> polys[1].rings[i].points]
           \o RingsOf(Tail(polys))

(* the positions, among all rings in order, of the first ring of each      *)
(* polygon                                                                 *)
RECURSIVE FirstRingAt(_, _)
FirstRingAt(polys, n) ==
    IF polys = <<>> THEN {}
    ELSE {n + 1} \cup FirstRingAt(Tail(polys), n + Len(polys[1].rings))

(* C6: the polygons hold the decoded rings, each once, in decode order; a  *)
(* polygon starts at the first ring and at every later ring classified     *)
(* clockwise, and nowhere else; no polygon is empty; one polygon is        *)
(* returned as a Polygon, several as a MultiPolygon.                       *)
C6_RingsGroupedByClockwise ==
    PolygonFeature =>
        LET rings == PartVertices(Source, 1, <<0, 0>>, TRUE)
            polys == PolygonsOf(ret.geometry)
        IN  /\ ret.kind = "feature"
            /\ ret.geometry.kind \in {"Polygon", "MultiPolygon"}
            /\ \A j \in 1..Len(polys) :
                  polys[j].kind = "Polygon" /\ Len(polys[j].rings) >= 1
            /\ RingsOf(polys) = rings
            /\ FirstRingAt(polys, 0) =
                  {1} \cup {i \in 2..Len(rings) : isClockwise(rings[i])}
            /\ Len(polys) =
                  1 + Cardinality({i \in 2..Len(rings) : isClockwise(rings[i])})
            /\ ret.geometry.kind = "Polygon" <=> Len(polys) = 1

C6_Witness ==
    /\ PolygonFeature
    /\ ret.geometry.kind = "MultiPolygon"
    /\ Len(ret.geometry.geoms) = 2
    /\ \E j \in 1..2 : Len(ret.geometry.geoms[j].rings) = 2

(* twice the signed area of a closed ring, positive when the ring runs     *)
(* clockwise on the tile grid, where Y grows downward                      *)
RECURSIVE Shoelace(_, _)
Shoelace(pts, i) ==
    IF i >= Len(pts) THEN 0
    ELSE pts[i][1] * pts[i + 1][2] - pts[i + 1][1] * pts[i][2]
           + Shoelace(pts, i + 1)

Square == <<<<0, 0>>, <<4, 0>>, <<4, 4>>, <<0, 4>>, <<0, 0>>>>

(* C7: a ring that runs clockwise on the Y-down tile grid (the square      *)
(* (0,0) (4,0) (4,4) (0,4) among them) starts a new polygon, and a ring    *)
(* that runs counter-clockwise there is a hole of the open polygon.        *)
C7_GridClockwiseStartsPolygon ==
    PolygonFeature =>
        LET rings == PartVertices(Source, 1, <<0, 0>>, TRUE)
            firsts == FirstRingAt(PolygonsOf(ret.geometry), 0)
        IN  \A i \in 2..Len(rings) :
               /\ rings[i] = Square => i \in firsts
               /\ Shoelace(rings[i], 1) > 0 => i \in firsts
               /\ Shoelace(rings[i], 1) < 0 => i \notin firsts

(* the line strings of a line geometry, in order *)
LinesOf(g) ==
    IF g.kind = "MultiLineString"
    THEN [i \in 1..Len(g.geoms) |-> g.geoms[i].points]
    ELSE <<g.points>>

(* C8: n MoveTo(1) + LineTo(k) sequences give a LineString for n = 1 and a *)
(* MultiLineString of exactly the n line strings, in order, for n >= 2.    *)
C8_SingleOrMultiLineString ==
    LineFeature =>
        LET lines == PartVertices(Source, 1, <<0, 0>>, FALSE)
        IN  /\ ret.kind = "feature"
            /\ Len(lines) = 1 => ret.geometry.kind = "LineString"
            /\ Len(lines) >= 2 =>
                  /\ ret.geometry.kind = "MultiLineString"
                  /\ \A i \in 1..Len(ret.geometry.geoms) :
                        ret.geometry.geoms[i].kind = "LineString"
            /\ LinesOf(ret.geometry) = lines

C8_Witness ==
    /\ LineFeature
    /\ ret.geometry.kind = "MultiLineString"
    /\ Len(ret.geometry.geoms) = 3

(* C9: the line string of MoveTo(1) + LineTo(k) has k + 1 coordinates: the *)
(* cursor after the MoveTo shift, then the cursor after each LineTo shift.  *)
C9_LineStringFollowsCursor ==
    LineFeature /\ Len(Source) = 4 + 2 * (Source[4] \div 8) =>
        /\ ret.kind = "feature"
        /\ ret.geometry.kind = "LineString"
        /\ Len(ret.geometry.points) = Source[4] \div 8 + 1
        /\ ret.geometry.points[1] = CursorPath(Source, 2, 1, <<0, 0>>)[1]
        /\ \A j \in 1..(Source[4] \div 8) :
              ret.geometry.points[j + 1] =
                  CursorPath(Source, 5, j, ret.geometry.points[1])[j]

C9_Witness ==
    /\ LineFeature
    /\ Len(Source) = 10
    /\ ret.geometry.kind = "LineString"
    /\ Len(ret.geometry.points) = 4
    /\ ret.geometry.points[1] = <<1, 1>>
    /\ ret.geometry.points[4] # ret.geometry.points[1]

(* C10: every ring of MoveTo(1) + LineTo(k) + ClosePath has k + 2          *)
(* coordinates and ends on its first coordinate, the cursor after the      *)
(* MoveTo shift.                                                           *)
C10_RingsAreClosed ==
    PolygonFeature =>
        LET rings == RingsOf(PolygonsOf(ret.geometry))
            parts == PartVertices(Source, 1, <<0, 0>>, TRUE)
        IN  /\ Len(rings) = Len(parts)
            /\ \A i \in 1..Len(rings) :
                  /\ Len(rings[i]) = Len(parts[i])
                  /\ Len(rings[i]) >= 3
                  /\ rings[i][Len(rings[i])] = rings[i][1]
                  /\ rings[i][1] = parts[i][1]

C10_Witness ==
    /\ PolygonFeature
    /\ ret.geometry.kind = "Polygon"
    /\ Len(ret.geometry.rings) = 2
    /\ Len(ret.geometry.rings[2].points) = 5
    /\ ret.geometry.rings[2].points[4] # ret.geometry.rings[2].points[1]

----------------------------------------------------------------------------
(* Reader contract: C11, C12, C13 *)

Underruns == {"CommandPastEnd", "ShiftPastEnd"}

(* the number of integers the reader of the last decode consumed *)
Consumed == last.pos - 1

(* a point stream whose MoveTo asks for more pairs than the stream holds *)
ShortPoints(st) ==
    /\ st # <<>>
    /\ Command(st[1]).type = moveTo
    /\ Command(st[1]).count >= 1
    /\ Len(st) < 1 + 2 * Command(st[1]).count

(* C11: a decode never consumes more integers than the stream holds; a     *)
(* decode that raised an underrun stopped exactly at the end of the stream *)
(* without consuming anything there, and a point stream shorter than its   *)
(* MoveTo count requires raises the underrun of shift at the end.          *)
C11_ReadWithinStream ==
    Decoded =>
        /\ Consumed <= Len(Source)
        /\ last.err \in Underruns => Consumed = Len(Source)
        /\ layer[1].type = POINT /\ ShortPoints(Source) =>
              last.err = "ShiftPastEnd" /\ Consumed = Len(Source)

(* the second half of a pair is missing: the stream ends after dx *)
C11_Witness ==
    /\ Decoded
    /\ last.err = "ShiftPastEnd"
    /\ Len(Source) = 4
    /\ Command(Source[1]).count = 2
    /\ Consumed = 4

(* The commands a line (closed = FALSE) or ring (closed = TRUE) decode      *)
(* reads from position p on, as <<position, opcode expected there>>, up to *)
(* and including the first one that cannot be accepted: parts are read     *)
(* while integers remain, each as MoveTo(1), a pair, LineTo(k), k pairs    *)
(* and, when closed, ClosePath.                                            *)
RECURSIVE PartReads(_, _, _)
PartReads(st, p, closed) ==
    IF p > Len(st) THEN <<>>
    ELSE <<<<p, moveTo>>>> \o
         (IF st[p] # Cmd(moveTo, 1) \/ p + 2 > Len(st) THEN <<>>
          ELSE <<<<p + 3, lineTo>>>> \o
               (IF p + 3 > Len(st) THEN <<>>
                ELSE LET k == st[p + 3] \div 8
                         q == p + 4 + 2 * k
                     IN  IF st[p + 3] % 8 # lineTo \/ k = 0 \/ q - 1 > Len(st)
                         THEN <<>>
                         ELSE IF ~closed THEN PartReads(st, q, closed)
                         ELSE <<<<q, closePath>>>> \o
                              (IF q > Len(st) THEN <<>>
                               ELSE IF st[q] % 8 # closePath \/ st[q] \div 8 = 0
                                    THEN <<>>
                                    ELSE PartReads(st, q + 1, closed))))

(* the commands the decode of a feature reads: a point stream is one MoveTo *)
CommandReads(feature) ==
    CASE feature.type = POINT      -> <<<<1, moveTo>>>>
      [] feature.type = LINESTRING -> PartReads(feature.geometry, 1, FALSE)
      [] feature.type = POLYGON    -> PartReads(feature.geometry, 1, TRUE)
      [] OTHER                     -> <<>>

(* the last command the decode read, or attempted to read *)
LastRead == CommandReads(layer[1])[Len(CommandReads(layer[1]))]

(* C12: a command read from an exhausted stream raises the underrun of     *)
(* command(); a command integer whose low three bits are not the opcode    *)
(* expected at its position, whether another opcode or no opcode at all,   *)
(* raises the unexpected-opcode error.                                     *)
C12_CommandErrors ==
    Decoded /\ CommandReads(layer[1]) # <<>> =>
        /\ LastRead[1] > Len(Source) => last.err = "CommandPastEnd"
        /\ LastRead[1] <= Len(Source) /\ Source[LastRead[1]] % 8 # LastRead[2] =>
              /\ last.err = "UnexpectedType"
              /\ Consumed = LastRead[1]

(* a ring whose ClosePath was replaced by an integer of opcode 3 *)
C12_Witness ==
    /\ Decoded
    /\ layer[1].type = POLYGON
    /\ Len(Source) = 11
    /\ LastRead = <<11, closePath>>
    /\ Source[11] % 8 = 3
    /\ last.err = "UnexpectedType"

(* the last command read is there and has the expected opcode op *)
LastReadIs(op) ==
    /\ CommandReads(layer[1]) # <<>>
    /\ LastRead[2] = op
    /\ LastRead[1] <= Len(Source)
    /\ Command(Source[LastRead[1]]).type = op

(* and its count is c *)
LastReadCount(op, c) ==
    LastReadIs(op) /\ Command(Source[LastRead[1]]).count = c

(* the decode raised e and the call returned no feature *)
FailedWith(e) ==
    /\ last.err = e
    /\ Consumed = LastRead[1]
    /\ ret = NoFeature("null")

----------------------------------------------------------------------------
(* Feature count: C14 *)

(* the features the layer declares, counted type by type *)
Declared ==
    Cardinality({i \in DOMAIN layer : layer[i].type = UNKNOWN})
      + Cardinality({i \in DOMAIN layer : layer[i].type # UNKNOWN})

(* C14: GetFeatureCount is the number of features the layer declares,      *)
(* those of unknown type included, in every state; no GetNextFeature call, *)
(* failed or not, and no ResetReading call changes it; it is never below   *)
(* the number of features the iteration has yielded.                       *)
C14_FeatureCountIsDeclared ==
    /\ [](GetFeatureCount = Declared /\ Len(yielded) <= GetFeatureCount)
    /\ [][GetFeatureCount' = GetFeatureCount]_vars

(* the iteration came to its end having yielded fewer features than the    *)
(* count: one feature is of unknown type                                   *)
C14_Witness ==
    /\ GetFeatureCount = 3
    /\ \E i \in DOMAIN layer : layer[i].type = UNKNOWN
    /\ last.call = "GetNextFeature" /\ last.at = 0
    /\ ifeatures = Len(layer) + 1
    /\ Len(yielded) = 2

----------------------------------------------------------------------------
(* Coordinates: C15 *)

(* the vertices of a decoded geometry, part by part *)
VerticesOf(g) ==
    CASE g.kind \in {"Point", "GeometryCollection", "MultiPoint"} ->
             <<PointCoords(g)>>
      [] g.kind \in {"LineString", "MultiLineString"} -> LinesOf(g)
      [] g.kind \in {"Polygon", "MultiPolygon"} -> RingsOf(PolygonsOf(g))

(* the cursor values at the vertices of a well-formed stream, part by part *)
CursorVertices(feature) ==
    CASE feature.type = POINT ->
             <<CursorPath(feature.geometry, 2, feature.geometry[1] \div 8,
                          <<0, 0>>)>>
      [] feature.type = LINESTRING ->
             PartVertices(feature.geometry, 1, <<0, 0>>, FALSE)
      [] feature.type = POLYGON ->
             PartVertices(feature.geometry, 1, <<0, 0>>, TRUE)

(* C15: whatever shift_ and scale_ the layer's Trafo was constructed with  *)
(* (dataset extents given or not, any layer extent), the vertices of a     *)
(* decoded geometry are the cursor's x and y at each step; the cursor      *)
(* depends on the stream alone, so decodes of one stream under different   *)
(* configurations give the same coordinates.                               *)
C15_VerticesAreCursorValues ==
    PointFeature \/ LineFeature \/ PolygonFeature =>
        /\ ret.kind = "feature"
        /\ VerticesOf(ret.geometry) = CursorVertices(layer[1])

(* a line decoded under extents (0,0):(8,16) and layer extent 8, where     *)
(* value * scale_ + shift_ would differ from value                         *)
C15_Witness ==
    /\ LineFeature
    /\ trafo = Trafo(8, <<<<0, 0>>, <<8, 16>>>>)
    /\ ret.kind = "feature"
    /\ ret.geometry.kind = "LineString"
    /\ ret.geometry.points = <<<<1, 1>>, <<5, 1>>, <<5, 5>>>>

----------------------------------------------------------------------------
(* Blending: C16 to C20.  A pixel p = <<i, j>> of the block read last is   *)
(* the pixel (GridX(p), GridY(p)) of the output grid.                      *)

GridX(p) == read.xoff * nBlockXSize + p[1]

GridY(p) == read.yoff * nBlockYSize + p[2]

(* source k is placed over the pixel (X, Y) *)
Covers(k, X, Y) == contains(bands[k].ref.extents, X, Y)

(* the sample of source k there, and the weight the last read gave it *)
SampleAt(k, X, Y) ==
    bands[k].band.data[<<X - bands[k].ref.extents.x,
                         Y - bands[k].ref.extents.y>>]

WeightAt(k, X, Y) ==
    read.sources[k].weights[<<X - read.sources[k].roi.x,
                              Y - read.sources[k].roi.y>>]

(* the sums over the sources 1..k that cover the pixel *)
RECURSIVE WeightedSum(_, _, _)
WeightedSum(k, X, Y) ==
    IF k = 0 THEN Frac(0, 1)
    ELSE IF Covers(k, X, Y)
         THEN Add(WeightedSum(k - 1, X, Y),
                  Mul(Frac(SampleAt(k, X, Y), 1), WeightAt(k, X, Y)))
         ELSE WeightedSum(k - 1, X, Y)

RECURSIVE WeightSum(_, _, _)
WeightSum(k, X, Y) ==
    IF k = 0 THEN Frac(0, 1)
    ELSE IF Covers(k, X, Y)
         THEN Add(WeightSum(k - 1, X, Y), WeightAt(k, X, Y))
         ELSE WeightSum(k - 1, X, Y)

ReadSources == {k \in DOMAIN read.sources : read.sources[k].kind = "read"}

(* the pixel of the output grid that pixel px of source k's window is *)
WindowX(k, px) == read.sources[k].roi.x + px[1]

WindowY(k, px) == read.sources[k].roi.y + px[2]

(* the centre (X + 0.5, Y + 0.5) lies in a rectangle given in half pixels; *)
(* the rectangle has its left and top edge and lacks the other two         *)
CentreInside(r, X, Y) ==
    /\ 2 * X + 1 \in r.x..(r.x + r.width - 1)
    /\ 2 * Y + 1 \in r.y..(r.y + r.height - 1)

CentreOutside(r, X, Y) == ~CentreInside(r, X, Y)

(* C17: with an empty overlap, the weight of every pixel read from a       *)
(* source is 0 when the pixel's centre lies outside the source's valid     *)
(* rectangle and the mask-derived weight when it lies inside.  A source    *)
(* adds nothing to a pixel whose centre is outside its valid rectangle.    *)
C17_HardPolicy ==
    empty(overlap) =>
        \A k \in ReadSources : \A px \in DOMAIN read.sources[k].weights :
            LET w == read.sources[k].weights[px]
                b == Frac(read.sources[k].base[px], 1)
                v == bands[k].ref.valid
            IN  /\ CentreOutside(v, WindowX(k, px), WindowY(k, px)) =>
                      w = Frac(0, 1)
                /\ CentreInside(v, WindowX(k, px), WindowY(k, px)) => w = b

(* a window of a fully valid source with one pixel inside the valid        *)
(* rectangle and one outside it; the source placed after it is the only    *)
(* one to give the outside pixel a value                                   *)
C17_Witness ==
    /\ empty(overlap)
    /\ read.ret = CE_None
    /\ Len(bands) = 2
    /\ ReadSources = {1, 2}
    /\ \E px \in DOMAIN read.sources[1].weights :
          /\ CentreInside(bands[1].ref.valid, WindowX(1, px), WindowY(1, px))
          /\ read.sources[1].weights[px] = Frac(1, 1)
    /\ \E p \in DOMAIN read.acc :
          /\ Covers(1, GridX(p), GridY(p)) /\ Covers(2, GridX(p), GridY(p))
          /\ CentreOutside(bands[1].ref.valid, GridX(p), GridY(p))
          /\ read.sources[1].base[<<GridX(p) - read.sources[1].roi.x,
                                     GridY(p) - read.sources[1].roi.y>>] = 1
          /\ WeightAt(1, GridX(p), GridY(p)) = Frac(0, 1)
          /\ SampleAt(1, GridX(p), GridY(p)) # SampleAt(2, GridX(p), GridY(p))
          /\ read.acc[p] = Frac(SampleAt(2, GridX(p), GridY(p)), 1)

(* the length two intervals [a1, a2] and [b1, b2] share *)
Shared(a1, a2, b1, b2) == Max(0, Min(a2, b2) - Max(a1, b1))

(* the part of the kernel of the pixel (X, Y) that lies in the rectangle r *)
(* and the whole kernel, in quarter pixels: the kernel reaches overlap     *)
(* from the pixel's centre to either side                                  *)
KernelIn(r, X, Y) ==
    Shared(2 * X + 1 - overlap.width, 2 * X + 1 + overlap.width,
           r.x, r.x + r.width)
      * Shared(2 * Y + 1 - overlap.height, 2 * Y + 1 + overlap.height,
               r.y, r.y + r.height)

KernelWhole == (2 * overlap.width) * (2 * overlap.height)

(* C18: with a nonempty overlap, the weight of every pixel read from a     *)
(* source is its mask-derived weight times the share of the pixel's kernel *)
(* that lies in the source's valid rectangle: the weight itself for a      *)
(* kernel inside the rectangle, 0 for one off it, half of it for a kernel  *)
(* half inside.                                                            *)
C18_SoftPolicy ==
    ~empty(overlap) =>
        \A k \in ReadSources : \A px \in DOMAIN read.sources[k].weights :
            LET w == read.sources[k].weights[px]
                b == read.sources[k].base[px]
                in == KernelIn(bands[k].ref.valid, WindowX(k, px), WindowY(k, px))
            IN  /\ w.n * KernelWhole = b * in * w.d
                /\ in = KernelWhole => w = Frac(b, 1)
                /\ in = 0 => w = Frac(0, 1)
                /\ 2 * in = KernelWhole => w = Frac(b, 2)

(* a window with a pixel whose kernel is half inside the valid rectangle,  *)
(* and a pixel whose kernel is off it                                      *)
C18_Witness ==
    /\ ~empty(overlap)
    /\ read.ret = CE_None
    /\ \E k \in ReadSources : \E px, qx \in DOMAIN read.sources[k].weights :
          /\ read.sources[k].base[px] = 1
          /\ 2 * KernelIn(bands[k].ref.valid, WindowX(k, px), WindowY(k, px))
                = KernelWhole
          /\ read.sources[k].weights[px] = Frac(1, 2)
          /\ read.sources[k].base[qx] = 1
          /\ read.sources[k].weights[qx] = Frac(0, 1)

(* the value the mask of source k has at the pixel px of the window read *)
MaskAt(k, px) ==
    bands[k].band.mask[<<WindowX(k, px) - bands[k].ref.extents.x,
                         WindowY(k, px) - bands[k].ref.extents.y>>]

(* C19: the base weight of a pixel read from a source with a mask is 1     *)
(* exactly when the mask marks the pixel fully valid (255) and 0 for every *)
(* other mask value, the partially valid ones included; every base weight  *)
(* of a source flagged all-valid is 1.                                     *)
C19_MaskWeight ==
    \A k \in ReadSources : \A px \in DOMAIN read.sources[k].base :
        IF bands[k].band.allValid
        THEN read.sources[k].base[px] = 1
        ELSE read.sources[k].base[px] = (IF MaskAt(k, px) = 255 THEN 1 ELSE 0)

(* the block last read lies inside the rectangle r of whole pixels, and    *)
(* inside the rectangle v of half pixels                                   *)
BlockInside(r) == RectAnd(block(read.xoff, read.yoff), r) = block(read.xoff, read.yoff)

BlockInsideValid(v) ==
    /\ v.x <= 2 * block(read.xoff, read.yoff).x
    /\ v.y <= 2 * block(read.xoff, read.yoff).y
    /\ 2 * (block(read.xoff, read.yoff).x + nBlockXSize) <= v.x + v.width
    /\ 2 * (block(read.xoff, read.yoff).y + nBlockYSize) <= v.y + v.height

(* C20: with one source, no overlap, a band flagged all-valid and a block  *)
(* inside the source's placement and valid rectangles, every pixel of the  *)
(* block IReadBlock has written is the source's sample at that position.   *)
C20_SingleSourceIdentity ==
    (/\ read.ret = CE_None
     /\ Len(bands) = 1
     /\ empty(overlap)
     /\ bands[1].band.allValid
     /\ BlockInside(bands[1].ref.extents)
     /\ BlockInsideValid(bands[1].ref.valid))
        => \A p \in Pixels(nBlockXSize, nBlockYSize) :
              read.out[p] = Frac(SampleAt(1, GridX(p), GridY(p)), 1)

----------------------------------------------------------------------------
(* Parameter decoding and the cursor: C23 .. C26 *)

(* the signed delta a raw parameter stands for in zig-zag encoding *)
ZigZag(p) == IF p % 2 = 0 THEN p \div 2 ELSE -((p + 1) \div 2)

(* the sum of the zig-zag decoded c-th halves of the first i pairs *)
RECURSIVE ZigZagSum(_, _, _)
ZigZagSum(st, i, c) ==
    IF i = 0 THEN 0 ELSE ZigZag(st[2 * i - 1 + c]) + ZigZagSum(st, i - 1, c)

(* C23: every parameter moves the cursor by its zig-zag decoded signed     *)
(* delta (p/2 for an even p, -(p+1)/2 for an odd p): the i-th coordinate   *)
(* of a Point feature is the sum of the decoded deltas of its first i      *)
(* pairs.  The comparison is modulo the word, so that it does not depend   *)
(* on how the cursor holds a negative sum.                                 *)
C23_ZigZagDeltas ==
    PointFeature =>
        /\ ret.kind = "feature"
        /\ \A i \in 1..(Source[1] \div 8) :
              /\ PointCoords(ret.geometry)[i][1] % W
                    = ZigZagSum(Source, i, 1) % W
              /\ PointCoords(ret.geometry)[i][2] % W
                    = ZigZagSum(Source, i, 2) % W

(* the positions in a well-formed stream of the MoveTo commands *)
RECURSIVE PartStarts(_, _, _)
PartStarts(st, p, closed) ==
    IF p > Len(st) THEN <<>>
    ELSE <<p>> \o PartStarts(st,
                     p + 4 + 2 * (st[p + 3] \div 8) + (IF closed THEN 1 ELSE 0),
                     closed)

(* the vertex v moved by the parameter pair at position p + 1 of the stream *)
MovedBy(v, st, p) == <<(v[1] + st[p + 1]) % W, (v[2] + st[p + 2]) % W>>

(* the vertex a part was left at: its last LineTo vertex, which in a ring  *)
(* is followed by the closing vertex                                       *)
LeftAt(pts, closed) == IF closed THEN pts[Len(pts) - 1] ELSE pts[Len(pts)]

(* the parts of the geometry returned, line strings or rings *)
PartsOf(g, closed) == IF closed THEN RingsOf(PolygonsOf(g)) ELSE LinesOf(g)

(* the first vertex of the first part is the first MoveTo delta from       *)
(* (0, 0), and the first vertex of every later part is its MoveTo delta    *)
(* from the vertex the part before was left at                             *)
CursorCarried(parts, st, closed) ==
    /\ Len(parts) = Len(PartStarts(st, 1, closed))
    /\ parts[1][1] = MovedBy(<<0, 0>>, st, 1)
    /\ \A i \in 2..Len(parts) :
          parts[i][1] = MovedBy(LeftAt(parts[i - 1], closed), st,
                                PartStarts(st, 1, closed)[i])

(* C24: every decode of a feature starts the cursor at (0, 0), whatever    *)
(* was decoded before; the cursor carries over from one line string or     *)
(* ring to the next; a ClosePath leaves it at the last LineTo vertex, so   *)
(* the MoveTo of the next ring is relative to that vertex and not to the   *)
(* ring's start.                                                           *)
C24_CursorCarriesOver ==
    /\ LineFeature /\ ret.kind = "feature" =>
          CursorCarried(PartsOf(ret.geometry, FALSE), Source, FALSE)
    /\ PolygonFeature /\ ret.kind = "feature" =>
          CursorCarried(PartsOf(ret.geometry, TRUE), Source, TRUE)
    /\ PointFeature /\ ret.kind = "feature" =>
          PointCoords(ret.geometry)[1] = MovedBy(<<0, 0>>, Source, 1)

(* a polygon feature returned whose first ring was left away from its     *)
(* start and whose second ring starts with a nonzero MoveTo delta          *)
C24_Witness ==
    /\ PolygonFeature /\ ret.kind = "feature"
    /\ ifeatures = 2 /\ yielded = <<1>>
    /\ Len(PartsOf(ret.geometry, TRUE)) >= 2
    /\ LeftAt(PartsOf(ret.geometry, TRUE)[1], TRUE)
          # PartsOf(ret.geometry, TRUE)[1][1]
    /\ PartsOf(ret.geometry, TRUE)[2][1]
          # LeftAt(PartsOf(ret.geometry, TRUE)[1], TRUE)
    /\ PartsOf(ret.geometry, TRUE)[2][1]
          = MovedBy(LeftAt(PartsOf(ret.geometry, TRUE)[1], TRUE), Source,
                    PartStarts(Source, 1, TRUE)[2])

(* C25: every feature GetNextFeature returns carries a geometry, and no   *)
(* call dereferences an empty geometry pointer, with or without an SRS,    *)
(* the LineString and Polygon features of an empty command stream          *)
(* included.                                                               *)
C25_GeometryNeverNull ==
    /\ ~crashed
    /\ ret.kind = "feature" => ret.geometry # NullGeometry

(* the signed delta a parameter stands for when added to the cursor: the   *)
(* value of the word read as two's complement                              *)
Signed(p) == IF p >= W \div 2 THEN p - W ELSE p

(* the signed sum of the c-th halves of the first i parameter pairs *)
RECURSIVE SignedSum(_, _, _)
SignedSum(st, i, c) ==
    IF i = 0 THEN 0 ELSE Signed(st[2 * i - 1 + c]) + SignedSum(st, i - 1, c)

(* C26: an emitted coordinate is the signed sum of the deltas applied so   *)
(* far, a negative sum included: the i-th coordinate of a Point feature is *)
(* the signed sum of its first i parameter pairs, not that sum wrapped     *)
(* into the unsigned word.                                                 *)
C26_CursorIsSigned ==
    PointFeature =>
        /\ ret.kind = "feature"
        /\ \A i \in 1..(Source[1] \div 8) :
              PointCoords(ret.geometry)[i] =
                  <<SignedSum(Source, i, 1), SignedSum(Source, i, 2)>>

----------------------------------------------------------------------------
(* BlendingDataset::Open and BlendingDataset::BlendingDataset(config)      *)
(* (blender.cpp).  Lengths are integers in units of the code's epsilon     *)
(* (1e-4), so that abs(a) < epsilon says a = 0.  A point is <<x, y>>, an   *)
(* Extents2 is [ll, ur], a geo-transform is a function over 0..5 as in the *)
(* code.  A source dataset file is a record: whether GDALOpen opens it,    *)
(* its geo-transform, raster size, band count and data type.               *)

epsilon == 1

almostSame(a, b) == Abs(a - b) < epsilon

almostSamePoint(a, b) == almostSame(a[1], b[1]) /\ almostSame(a[2], b[2])

orthogonal(ds) == Abs(ds.gt[2]) < epsilon /\ Abs(ds.gt[4]) < epsilon

(* std::hypot, exact on the geo-transforms of the model, whose rows are    *)
(* axis-parallel or multiples of (3, 4)                                    *)
hypot(a, b) == CHOOSE r \in 0..(Abs(a) + Abs(b)) :
                   r * r <= a * a + b * b /\ (r + 1) * (r + 1) > a * a + b * b

getResolution(gt) == <<hypot(gt[1], gt[4]), hypot(gt[2], gt[5])>>

(* checkCompatibility(refPath, ref, dsPath, ds): the std::runtime_error    *)
(* thrown, "none" when it returns                                          *)
checkCompatibility(ref, ds) ==
    IF ~orthogonal(ds) THEN "NonOrthogonal"
    ELSE IF ~almostSamePoint(getResolution(ref.gt), getResolution(ds.gt))
         THEN "DifferentResolution"
         ELSE IF ref.rasterCount # ds.rasterCount
              THEN "DifferentBandCount"
              ELSE "none"

(* the loop "open all datasets" from dataset i on, files the datasets that *)
(* GDALOpen finds under the configured paths; main is files[1]             *)
RECURSIVE openAll(_, _)
openNext(files, i, e) == IF e # "none" THEN e ELSE openAll(files, i + 1)

openAll(files, i) ==
    IF i > Len(files) THEN "none"
    ELSE IF ~files[i].opens THEN "FailedToOpen"
         ELSE IF i = 1 THEN openAll(files, i + 1)
              ELSE openNext(files, i, checkCompatibility(files[1], files[i]))

GeoTransform(a, b, c, d, e, f) ==
    [i \in 0..5 |-> CASE i = 0 -> a [] i = 1 -> b [] i = 2 -> c
                       [] i = 3 -> d [] i = 4 -> e [] OTHER -> f]

Extents2(llx, lly, urx, ury) == [ll |-> <<llx, lly>>, ur |-> <<urx, ury>>]

(* math::ul, math::lr, math::size of an Extents2 *)
ul(e) == <<e.ll[1], e.ur[2]>>

lr(e) == <<e.ur[1], e.ll[2]>>

size(e) == [width |-> e.ur[1] - e.ll[1], height |-> e.ur[2] - e.ll[2]]

(* the smallest and the largest of a set of numbers *)
MinOf(S) == CHOOSE v \in S : \A u \in S : v <= u

MaxOf(S) == CHOOSE v \in S : \A u \in S : v >= u

(* the conversion of a double to int, toward zero; a / b for b > 0 *)
Trunc(a, b) == IF a >= 0 THEN a \div b ELSE -((-a) \div b)

(* Descriptor(ds): the transform lambda, and the extents of the four       *)
(* transformed corners                                                     *)
transform(gt, x, y) ==
    <<gt[0] + x * gt[1] + y * gt[2], gt[3] + x * gt[4] + y * gt[5]>>

corners(gt, sz) ==
    {transform(gt, 0, sz.height), transform(gt, sz.width, sz.height),
     transform(gt, 0, 0), transform(gt, sz.width, 0)}

Descriptor(ds) ==
    [size |-> ds.size,
     resolution |-> getResolution(ds.gt),
     extents |-> Extents2(MinOf({c[1] : c \in corners(ds.gt, ds.size)}),
                          MinOf({c[2] : c \in corners(ds.gt, ds.size)}),
                          MaxOf({c[1] : c \in corners(ds.gt, ds.size)}),
                          MaxOf({c[2] : c \in corners(ds.gt, ds.size)}))]

(* resolution: the configured one, else the first dataset's *)
resolutionOf(config, main) ==
    IF config.resolution # <<>> THEN config.resolution
    ELSE getResolution(main.gt)

(* the align lambda: floor for ll, ceil for ur, on the grid of resolution  *)
(* through origin                                                          *)
alignLow(v, o, r) == ((v - o) \div r) * r + o

alignHigh(v, o, r) == (-((o - v) \div r)) * r + o

align(extents, origin, resolution) ==
    Extents2(alignLow(extents.ll[1], origin[1], resolution[1]),
             alignLow(extents.ll[2], origin[2], resolution[2]),
             alignHigh(extents.ur[1], origin[1], resolution[1]),
             alignHigh(extents.ur[2], origin[2], resolution[2]))

(* the point2pixel and pixelExtents lambdas; extents are the aligned ones *)
point2pixel(p, extents, res) ==
    <<Trunc(p[1] - ul(extents)[1], res[1]),
      Trunc(-(p[2] - ul(extents)[2]), res[2])>>

pixelExtents(e, sz, extents, res) ==
    Rect(point2pixel(ul(e), extents, res)[1],
         point2pixel(ul(e), extents, res)[2], sz.width, sz.height)

(* the point2pixeld and pixelValid lambdas, in half pixels; the valid      *)
(* extents of the model fall on half pixels                                *)
point2pixeld(p, extents, res) ==
    <<(2 * (p[1] - ul(extents)[1])) \div res[1],
      (2 * (ul(extents)[2] - p[2])) \div res[2]>>

pixelValid(e, extents, res) ==
    Rect(point2pixeld(ul(e), extents, res)[1],
         point2pixeld(ul(e), extents, res)[2],
         point2pixeld(lr(e), extents, res)[1]
           - point2pixeld(ul(e), extents, res)[1],
         point2pixeld(lr(e), extents, res)[2]
           - point2pixeld(ul(e), extents, res)[2])

(* "compute references": one ImageReference per configured dataset *)
references(datasets, files, extents, res) ==
    [i \in 1..Len(files) |->
        [path |-> datasets[i].path,
         extents |-> pixelExtents(Descriptor(files[i]).extents,
                                  Descriptor(files[i]).size, extents, res),
         valid |-> pixelValid(datasets[i].valid, extents, res)]]

(* RasterBand(dset, bandIndex, references): a band of every source, and    *)
(* the sizes taken from the dataset                                        *)
RasterBand(dset, bandIndex, files, refs) ==
    [bands_ |-> [i \in 1..Len(files) |->
                    [band |-> [path |-> refs[i].path, index |-> bandIndex],
                     ref |-> refs[i]]],
     nRasterXSize |-> dset.nRasterXSize,
     nRasterYSize |-> dset.nRasterXSize,
     nBlockXSize |-> nBlockXSize,
     nBlockYSize |-> nBlockYSize,
     eDataType |-> files[1].type]

(* "compute raster size and set geo transform", on the aligned extents *)
sized(extents, res, config) ==
    [nRasterXSize |-> Trunc(size(extents).width, res[1]),
     nRasterYSize |-> Trunc(size(extents).height, res[2]),
     geoTransform_ |-> GeoTransform(extents.ll[1], res[1], 0,
                                    extents.ur[2], 0, -res[2]),
     overlap_ |-> [width |-> config.overlap * res[1],
                   height |-> config.overlap * res[2]]]

(* "create bands": bandCount(main->GetRasterCount()) *)
withBands(dset, files, refs) ==
    dset @@ [datasets_ |-> files,
             bands |-> [b \in 1..files[1].rasterCount |->
                           RasterBand(dset, b, files, refs)]]

built(config, files, extents, res) ==
    withBands(sized(extents, res, config), files,
              references(config.datasets, files, extents, res))

(* a constructor's outcome: the object, or the exception thrown *)
Constructed(d) == [err |-> "none", dataset |-> d]

nullptr == [pc |-> "nullptr"]

Raised(e) == [err |-> e, dataset |-> nullptr]

(* BlendingDataset(config), files the datasets under the configured paths, *)
(* e what the loop that opens them raised                                  *)
afterOpenAll(config, files, e) ==
    IF e # "none" THEN Raised(e)
    ELSE Constructed(
             built(config, files,
                   align(config.extents, <<files[1].gt[0], files[1].gt[3]>>,
                         resolutionOf(config, files[1])),
                   resolutionOf(config, files[1])))

BlendingDataset(config, files) ==
    afterOpenAll(config, files, openAll(files, 1))

(* BlendingDataset::Open from "initialize dataset" on: the new dataset,   *)
(* or nullptr with the runtime_error reported through CPLError (err)       *)
Open ==
    /\ blending.pc = "config"
    /\ blending' =
          [blending EXCEPT
              !.pc = "done",
              !.ret = BlendingDataset(
                          blending.config,
                          [i \in 1..Len(blending.config.datasets) |->
                              blending.files[blending.config.datasets[i].path]])]
    /\ UNCHANGED <<mbtiles, solid>>
    /\ UNCHANGED mvtVars
    /\ UNCHANGED blendVars

NextOpen == Open

(* Inputs: the dataset files.  a and b are north-up with pixels of 5 by 5; *)
(* r is rotated, with pixel rows (3, 4) and (4, -3) of length 5; t has one *)
(* rotation term; h has pixels of 10 by 10; c has three bands; x does not  *)
(* open.                                                                   *)
DatasetFile(opens, gt, w, h, count) ==
    [opens |-> opens, gt |-> gt, size |-> [width |-> w, height |-> h],
     rasterCount |-> count, type |-> "GDT_Byte"]

SourceFiles ==
    [path \in {"a", "b", "r", "t", "h", "c", "x"} |->
        CASE path = "a" ->
               DatasetFile(TRUE, GeoTransform(0, 5, 0, 20, 0, -5), 4, 2, 1)
          [] path = "b" ->
               DatasetFile(TRUE, GeoTransform(10, 5, 0, 20, 0, -5), 2, 2, 1)
          [] path = "r" ->
               DatasetFile(TRUE, GeoTransform(0, 3, 4, 20, 4, -3), 2, 2, 1)
          [] path = "t" ->
               DatasetFile(TRUE, GeoTransform(0, 3, 0, 20, 4, -5), 2, 2, 1)
          [] path = "h" ->
               DatasetFile(TRUE, GeoTransform(0, 10, 0, 20, 0, -10), 2, 2, 1)
          [] path = "c" ->
               DatasetFile(TRUE, GeoTransform(0, 5, 0, 20, 0, -5), 2, 2, 3)
          [] OTHER ->
               DatasetFile(FALSE, GeoTransform(0, 5, 0, 20, 0, -5), 2, 2, 1)]

(* configs of up to MaxSources datasets, each valid on (5, 10)-(15, 20);   *)
(* extents of 4 by 2 and of 4 by 4 pixels of 5 and extents off the grid;   *)
(* with and without a configured resolution                                *)
BlendingConfigs ==
    {[datasets |-> [i \in 1..Len(ps) |-> [path |-> ps[i],
                                           valid |-> Extents2(5, 10, 15, 20)]],
      extents |-> e, resolution |-> r, overlap |-> o] :
        ps \in UNION {[1..m -> DOMAIN SourceFiles] : m \in 1..MaxSources},
        e \in {Extents2(0, 10, 20, 20), Extents2(0, 0, 20, 20),
                Extents2(2, 9, 18, 20)},
        r \in {<<>>, <<10, 5>>},
        o \in {0, 1}}

(* the variables of the tile layer and of the block read, taking no part *)
IdleLayer ==
    /\ layer = <<>>
    /\ srs = FALSE
    /\ trafo = Trafo(4, <<>>)
    /\ ifeatures = 1
    /\ ret = NoFeature("none")
    /\ cplError = "none"
    /\ crashed = FALSE
    /\ last = Observed("none", 0, "none", 0)
    /\ yielded = <<>>

IdleBlend ==
    /\ bands = <<>>
    /\ overlap = [width |-> 0, height |-> 0]
    /\ read = NoRead

(* a parsed config file, the dataset not yet made *)
InitOpen ==
    /\ blending \in {[pc |-> "config", config |-> c, files |-> SourceFiles,
                       ret |-> Raised("none")] : c \in BlendingConfigs}
    /\ mbtiles = Idle
    /\ solid = Idle
    /\ IdleLayer
    /\ IdleBlend

SpecOpen == InitOpen /\ [][NextOpen]_vars

----------------------------------------------------------------------------
(* Construction of the blending dataset: C21, C28 *)

(* the files of the configured sources, in order *)
Configured ==
    [i \in 1..Len(blending.config.datasets) |->
        blending.files[blending.config.datasets[i].path]]

(* no rotation terms; pixel width and height, squared *)
NorthUp(f) == f.gt[2] = 0 /\ f.gt[4] = 0

PixelSquared(f) ==
    <<f.gt[1] * f.gt[1] + f.gt[4] * f.gt[4],
      f.gt[2] * f.gt[2] + f.gt[5] * f.gt[5]>>

Compatible ==
    \A i \in 1..Len(Configured) :
        /\ NorthUp(Configured[i])
        /\ PixelSquared(Configured[i]) = PixelSquared(Configured[1])
        /\ Configured[i].rasterCount = Configured[1].rasterCount

(* C21: when the construction of a blending dataset succeeds, every        *)
(* configured source, the first included, is orthogonal, and all have the  *)
(* same resolution and band count; otherwise the construction fails at     *)
(* open time and no dataset is returned.                                   *)
C21_SourcesAreCompatible ==
    blending.pc = "done" =>
        /\ blending.ret.err = "none" => Compatible
        /\ ~Compatible =>
              blending.ret.err # "none" /\ blending.ret.dataset = nullptr

(* C28: every band of a blending dataset reports the raster width and     *)
(* height of the dataset itself, whatever the dataset's size, a non-square *)
(* one included.                                                           *)
C28_BandSizeIsDatasetSize ==
    blending.pc = "done" /\ blending.ret.err = "none" =>
        \A b \in DOMAIN blending.ret.dataset.bands :
            /\ blending.ret.dataset.bands[b].nRasterXSize
                  = blending.ret.dataset.nRasterXSize
            /\ blending.ret.dataset.bands[b].nRasterYSize
                  = blending.ret.dataset.nRasterYSize

----------------------------------------------------------------------------
(* loadFromMbTilesArchive (mbtiles.cpp).  A C string is the sequence of    *)
(* its characters; the character at a position past the last is the       *)
(* terminating NUL.  unsigned int is modelled W wide, like the words of    *)
(* the tile decoder.                                                       *)

NUL == "NUL"

(* p[i] for the 1-based position i of the string st *)
charAt(st, i) == IF i <= Len(st) THEN st[i] ELSE NUL

DigitChars == <<"0", "1", "2", "3", "4", "5", "6", "7", "8", "9">>

isDigit(c) == \E d \in 1..10 : DigitChars[d] = c

(* positive(c): c - '0' *)
positive(c) == (CHOOSE d \in 1..10 : DigitChars[d] = c) - 1

(* the outcome of parsePart: the position after the part (0 for nullptr)   *)
(* and the value left in the variable passed by reference                  *)
Part(e, value) == [e |-> e, value |-> value]

(* while (isDigit(c)) { value *= 10; value += getter(c); c = *++e; } and   *)
(* the tests on dist = e - p that follow                                   *)
RECURSIVE parseDigits(_, _, _, _)
parseDigits(st, p, e, value) ==
    IF isDigit(charAt(st, e))
    THEN parseDigits(st, p, e + 1, (value * 10 + positive(charAt(st, e))) % W)
    ELSE IF e - p < 1 THEN Part(0, value)
         ELSE IF charAt(st, p) = "0" /\ e - p > 1 THEN Part(0, value)
              ELSE Part(e, value)

(* parsePart<1>(p, value): value is the variable as it was *)
parsePart(st, p, value) ==
    IF charAt(st, p) \in {"-", "+"}
    THEN Part(0, value)
    ELSE parseDigits(st, p, p, 0)

(* parse(p, zoom, col, row): whether it matched, and zoom, col and row as  *)
(* it leaves them; they are 0 when it is called                            *)
Parsed(ok, zoom, col, row) ==
    [ok |-> ok, zoom |-> zoom, col |-> col, row |-> row]

parseRow(st, z, c, r) ==
    IF r.e = 0 THEN Parsed(FALSE, z.value, c.value, r.value)
    ELSE Parsed(charAt(st, r.e) = NUL, z.value, c.value, r.value)

parseCol(st, z, c) ==
    IF c.e = 0 \/ charAt(st, c.e) # "-"
    THEN Parsed(FALSE, z.value, c.value, 0)
    ELSE parseRow(st, z, c, parsePart(st, c.e + 1, 0))

parseZoom(st, z) ==
    IF z.e = 0 \/ charAt(st, z.e) # "-"
    THEN Parsed(FALSE, z.value, 0, 0)
    ELSE parseCol(st, z, parsePart(st, z.e + 1, 0))

parse(st, p) == parseZoom(st, parsePart(st, p, 0))

(* ::strrchr(path, '/'): the position of the last slash, 0 when none *)
strrchr(path) ==
    IF \E i \in 1..Len(path) : path[i] = "/"
    THEN CHOOSE i \in 1..Len(path) :
             path[i] = "/" /\ \A j \in (i + 1)..Len(path) : path[j] # "/"
    ELSE 0

(* unsigned int max((1 << zoom) - 1).  The shift is made in int.  Below    *)
(* the width of int it gives 2^zoom, and at width - 1 the smallest int,    *)
(* which the wrapping subtraction turns into 2^zoom - 1.  From the width   *)
(* of int on the shift is undefined: the outcomes are those of a shifter   *)
(* that masks the count to the width and of one that shifts the bit out.   *)
maxOutcomes(zoom) ==
    IF zoom < WordBits THEN {(2 ^ zoom - 1) % W}
    ELSE {(2 ^ (zoom % WordBits) - 1) % W, W - 1}

(* switch row from bottom to top: row = max - row *)
flipRow(max, row) == (max - row) % W

(* the int that sqlite3_bind_int receives for an unsigned int *)
toInt(u) == IF u >= W \div 2 THEN u - W ELSE u

(* A serialized tile is a sequence of layers, each the tag 0x1a, a length  *)
(* and that many bytes.  ParseFromArray: the layers, and whether the whole *)
(* input was one                                                           *)
Tile(ok, layers) == [ok |-> ok, layers |-> layers]

RECURSIVE parseTile(_, _, _)
parseTile(blob, i, layers) ==
    IF i > Len(blob) THEN Tile(TRUE, layers)
    ELSE IF blob[i] # 26 \/ i + 1 > Len(blob) \/ i + 1 + blob[i + 1] > Len(blob)
         THEN Tile(FALSE, layers)
         ELSE parseTile(blob, i + 2 + blob[i + 1],
                        Append(layers, SubSeq(blob, i + 2, i + 1 + blob[i + 1])))

ParseFromArray(blob) == parseTile(blob, 1, <<>>)

(* A gzip stream is the magic 0x1f 0x8b, the data with every byte stored   *)
(* as its complement, and a checksum, the sum of the data bytes modulo     *)
(* 256.  gunzip gives the data, or fails on anything else.                 *)
RECURSIVE byteSum(_)
byteSum(bytes) ==
    IF bytes = <<>> THEN 0 ELSE (bytes[1] + byteSum(Tail(bytes))) % 256

inflate(body) == [i \in 1..Len(body) |-> 255 - body[i]]

gunzip(blob) ==
    IF Len(blob) < 3 \/ blob[1] # 31 \/ blob[2] # 139
    THEN [ok |-> FALSE, data |-> <<>>]
    ELSE IF byteSum(inflate(SubSeq(blob, 3, Len(blob) - 1))) # blob[Len(blob)]
         THEN [ok |-> FALSE, data |-> <<>>]
         ELSE [ok |-> TRUE, data |-> inflate(SubSeq(blob, 3, Len(blob) - 1))]

(* tile.ParseFromIstream(&gzipped) *)
fromGzip(g) == IF g.ok THEN ParseFromArray(g.data) ELSE Tile(FALSE, <<>>)

ParseFromIstream(blob) == fromGzip(gunzip(blob))

(* What a call did: the bool returned, the archive files it opened with   *)
(* sqlite3_open_v2, the keys (zoom_level, tile_column, tile_row) it ran    *)
(* the query with, the tile as parsed, and the CPLErrors it reported       *)
Loaded(ok, opens, queries, tile, errors) ==
    [ok |-> ok, opens |-> opens, queries |-> queries, tile |-> tile,
     errors |-> errors]

NoTile == Tile(FALSE, <<>>)

(* from "get blob" on *)
loadBlob(name, key, errors, blob) ==
    IF blob = <<>>
    THEN Loaded(FALSE, <<name>>, <<key>>, NoTile, Append(errors, "NoBlob"))
    ELSE IF blob[1] # 31
         THEN Loaded(ParseFromArray(blob).ok, <<name>>, <<key>>,
                     ParseFromArray(blob), errors)
         ELSE Loaded(ParseFromIstream(blob).ok, <<name>>, <<key>>,
                     ParseFromIstream(blob), errors)

(* sqlite3_prepare on the open database, the binds and sqlite3_step *)
loadRow(name, key, errors, file) ==
    IF file.kind # "mbtiles"
    THEN Loaded(FALSE, <<name>>, <<>>, NoTile, Append(errors, "sqlite3_prepare"))
    ELSE IF key \notin DOMAIN file.tiles
         THEN Loaded(FALSE, <<name>>, <<key>>, NoTile, Append(errors, "NoTile"))
         ELSE loadBlob(name, key, errors, file.tiles[key])

(* "open database": Database db(mbtiles); sqlite3_open_v2(READONLY) *)
loadOpen(files, name, key, errors) ==
    IF name \notin DOMAIN files
    THEN Loaded(FALSE, <<name>>, <<>>, NoTile, Append(errors, "sqlite3_open_v2"))
    ELSE loadRow(name, key, errors, files[name])

(* the CPLErrors of the two tests on what parse left in zoom, col, row;    *)
(* neither test returns                                                    *)
parseErrors(parsed, max) ==
    (IF ~parsed.ok THEN <<"NoMatch">> ELSE <<>>)
      \o (IF parsed.col > max \/ parsed.row > max
          THEN <<"OutOfBound">> ELSE <<>>)

(* the three sqlite3_bind_int *)
tileKey(parsed, max) ==
    <<toInt(parsed.zoom), toInt(parsed.col), toInt(flipRow(max, parsed.row))>>

(* after the last slash was found at position p *)
loadParsed(path, files, p, parsed, max) ==
    loadOpen(files, SubSeq(path, 1, p - 1), tileKey(parsed, max),
             parseErrors(parsed, max))

load(path, files, max) ==
    IF strrchr(path) = 0
    THEN Loaded(FALSE, <<>>, <<>>, NoTile, <<"NoSlash">>)
    ELSE loadParsed(path, files, strrchr(path),
                    parse(path, strrchr(path) + 1), max)

(* the values max can take in a call with this path *)
shifted(path) ==
    IF strrchr(path) = 0 THEN {0}
    ELSE maxOutcomes(parse(path, strrchr(path) + 1).zoom)

(* loadFromMbTilesArchive(tile, path) *)
loadFromMbTilesArchive ==
    /\ mbtiles.pc = "call"
    /\ \E max \in shifted(mbtiles.path) :
          mbtiles' = [mbtiles EXCEPT !.pc = "done",
                        !.ret = load(mbtiles.path, mbtiles.files, max)]
    /\ UNCHANGED <<blending, solid>>
    /\ UNCHANGED mvtVars
    /\ UNCHANGED blendVars

NextMbTiles == loadFromMbTilesArchive

(* Inputs of the tile lookup *)

MaxZoom == 4

(* the decimal digits of a natural number *)
RECURSIVE Digits(_)
Digits(n) ==
    IF n < 10 THEN <<DigitChars[n + 1]>>
    ELSE Digits(n \div 10) \o <<DigitChars[(n % 10) + 1]>>

TileName(z, c, r) ==
    Digits(z) \o <<"-">> \o Digits(c) \o <<"-">> \o Digits(r)

(* names zoom-col-row of every tile of the zoom levels up to MaxZoom and   *)
(* of those one column or one row beyond, and of tiles of the zoom levels  *)
(* around the width of int                                                 *)
TileNames ==
    UNION {{TileName(z, c, r) : c \in 0..(2 ^ z), r \in 0..(2 ^ z)} :
              z \in 0..MaxZoom}
      \cup {TileName(z, c, r) : z \in (WordBits - 1)..(WordBits + 1),
                                c \in {0, 1}, r \in {0, 5}}

(* last path elements that are not zoom-col-row *)
OtherNames ==
    {<<>>,
     <<"1">>,
     <<"1", "-", "0">>,
     <<"1", "-", "0", "-">>,
     <<"1", "-", "0", "-", "0", "x">>,
     <<"0", "1", "-", "0", "-", "0">>,
     <<"1", "-", "0", "0", "-", "0">>,
     <<"1", "-", "0", "-", "0", "1">>,
     <<"+", "1", "-", "0", "-", "0">>,
     <<"-", "1", "-", "0", "-", "0">>,
     <<"1", "_", "0", "_", "0">>,
     <<"1", "-", "-", "0">>,
     <<"x">>,
     <<"1", "-", "0", "-", "0", "-", "0">>,
     <<"1", "-", "0", "-", " ", "0">>}

(* a serialized tile, and its gzip stream *)
Gzip(data) ==
    <<31, 139>> \o [i \in 1..Len(data) |-> 255 - data[i]] \o <<byteSum(data)>>

RawTile == <<26, 1, 7>>

TwoLayerTile == <<26, 0, 26, 2, 1, 2>>

(* the tiles table of archive D, by (zoom_level, tile_column, tile_row):   *)
(* raw and gzipped tiles, an empty blob, a gzip stream cut short, a blob   *)
(* that is no tile                                                         *)
TilesOfD ==
    [key \in {<<0, 0, 0>>, <<1, 0, 1>>, <<1, 1, 0>>, <<1, 0, 0>>,
               <<2, 1, 2>>, <<2, 0, 3>>, <<4, 10, 5>>} |->
        CASE key = <<0, 0, 0>> -> RawTile
          [] key = <<1, 0, 1>> -> TwoLayerTile
          [] key = <<1, 1, 0>> -> Gzip(RawTile)
          [] key = <<1, 0, 0>> -> <<>>
          [] key = <<2, 1, 2>> -> <<31, 139, 229>>
          [] key = <<2, 0, 3>> -> <<8, 1>>
          [] OTHER -> Gzip(TwoLayerTile)]

(* the files there are: the archive D, an archive a/D with no tiles, and a *)
(* file F that is no database; N does not exist                            *)
ArchiveFiles ==
    [name \in {<<"D">>, <<"a", "/", "D">>, <<"F">>} |->
        CASE name = <<"D">> -> [kind |-> "mbtiles", tiles |-> TilesOfD]
          [] name = <<"F">> -> [kind |-> "other", tiles |-> <<>>]
          [] OTHER -> [kind |-> "mbtiles", tiles |-> <<>>]]

Directories == {<<"D">>, <<"a", "/", "D">>, <<"F">>, <<"N">>}

TilePaths ==
    {d \o <<"/">> \o n : d \in Directories, n \in TileNames \cup OtherNames}
      \cup {TileName(1, 0, 0), <<"D">>}

InitMbTiles ==
    /\ mbtiles \in {[pc |-> "call", path |-> p, files |-> ArchiveFiles,
                      ret |-> Loaded(FALSE, <<>>, <<>>, NoTile, <<>>)] :
                        p \in TilePaths}
    /\ blending = Idle
    /\ solid = Idle
    /\ IdleLayer
    /\ IdleBlend

SpecMbTiles == InitMbTiles /\ [][NextMbTiles]_vars

----------------------------------------------------------------------------
(* The tile lookup: C22, C27 *)

(* the tile the blob holds, gunzipped first when it starts with 0x1f; no   *)
(* tile when it does not gunzip                                            *)
TileOf(blob) ==
    IF blob[1] # 31 THEN ParseFromArray(blob)
    ELSE IF gunzip(blob).ok THEN ParseFromArray(gunzip(blob).data)
         ELSE NoTile

(* what the call for archive d and key gave, d being a database *)
LookedUp(d, key) ==
    /\ mbtiles.ret.queries = <<key>>
    /\ IF key \notin DOMAIN mbtiles.files[d].tiles
          \/ mbtiles.files[d].tiles[key] = <<>>
       THEN ~mbtiles.ret.ok
       ELSE /\ mbtiles.ret.tile = TileOf(mbtiles.files[d].tiles[key])
            /\ mbtiles.ret.ok = mbtiles.ret.tile.ok

(* the path d/z-c-r was loaded *)
LoadedTile(d, z, c, r) ==
    /\ mbtiles.pc = "done"
    /\ mbtiles.path = d \o <<"/">> \o TileName(z, c, r)

(* the zoom levels of the tiles loaded, and columns and rows of theirs *)
Zooms == (0..MaxZoom) \cup ((WordBits - 1)..(WordBits + 1))

Coords(z) == 0..(IF z <= MaxZoom THEN 2 ^ z - 1 ELSE 5)

(* the call for tile (z, c, r) of archive d opened d and, d being a        *)
(* database, looked up (z, c, 2^z - 1 - r) in it                           *)
LooksUpFlippedRow(d, z, c, r) ==
    LoadedTile(d, z, c, r) =>
        /\ mbtiles.ret.opens = <<d>>
        /\ d \in DOMAIN mbtiles.files /\ mbtiles.files[d].kind = "mbtiles"
            => LookedUp(d, <<z, c, 2 ^ z - 1 - r>>)

(* C22: for a path D/z-c-r with c and r in 0..2^z-1 the call opens the     *)
(* archive file D and queries it for the tile keyed (z, c, 2^z - 1 - r);   *)
(* a blob whose first byte is 0x1f is gunzipped before it is parsed as a   *)
(* tile, any other blob is parsed as it is; a missing row or an empty blob *)
(* gives failure                                                           *)
C22_LooksUpFlippedRow ==
    \A d \in Directories : \A z \in Zooms : \A c \in Coords(z), r \in Coords(z) :
        LooksUpFlippedRow(d, z, c, r)

(* the same for the zoom levels below the width of int only *)
LooksUpBelowIntWidth ==
    \A d \in Directories : \A z \in Zooms : \A c \in Coords(z), r \in Coords(z) :
        z < WordBits => LooksUpFlippedRow(d, z, c, r)

(* a gzipped tile was loaded from a row that is not its own mirror image *)
GzippedTileLoaded ==
    \E z \in 1..MaxZoom : \E c \in 0..(2 ^ z - 1), r \in 0..(2 ^ z - 1) :
        /\ LoadedTile(<<"D">>, z, c, r)
        /\ r # 2 ^ z - 1 - r
        /\ mbtiles.ret.queries = <<<<z, c, 2 ^ z - 1 - r>>>>
        /\ <<z, c, 2 ^ z - 1 - r>> \in DOMAIN mbtiles.files[<<"D">>].tiles
        /\ mbtiles.files[<<"D">>].tiles[<<z, c, 2 ^ z - 1 - r>>][1] = 31
        /\ mbtiles.ret.ok
        /\ mbtiles.ret.tile.layers # <<>>

(* the last element of a path with a slash *)
LastElement(path) == SubSeq(path, strrchr(path) + 1, Len(path))

(* the names zoom-col-row with col and row within 0..2^zoom-1 *)
ValidNames ==
    UNION {{TileName(z, c, r) : c \in Coords(z), r \in Coords(z)} :
              z \in Zooms}

(* C27: the call returns failure without opening or querying the archive  *)
(* when the last path element does not parse as zoom-col-row or when col   *)
(* or row exceeds 2^zoom - 1; the tile_row bound into the query is always  *)
(* within 0..2^zoom-1                                                      *)
C27_RejectsBeforeOpening ==
    mbtiles.pc = "done" =>
        /\ strrchr(mbtiles.path) # 0
              /\ LastElement(mbtiles.path) \notin ValidNames
            => /\ ~mbtiles.ret.ok
               /\ mbtiles.ret.opens = <<>>
               /\ mbtiles.ret.queries = <<>>
        /\ \A q \in DOMAIN mbtiles.ret.queries :
              mbtiles.ret.queries[q][3] \in 0..(2 ^ mbtiles.ret.queries[q][1] - 1)

(* a call that reported one of the two errors and still opened the archive *)
ReportedAndOpened ==
    /\ mbtiles.pc = "done"
    /\ \E e \in DOMAIN mbtiles.ret.errors :
          mbtiles.ret.errors[e] \in {"NoMatch", "OutOfBound"}
    /\ mbtiles.ret.opens # <<>>

(* a call for a name that is not zoom-col-row that returned a tile *)
MalformedGaveTile ==
    /\ mbtiles.pc = "done"
    /\ strrchr(mbtiles.path) # 0
    /\ LastElement(mbtiles.path) \in OtherNames
    /\ mbtiles.ret.ok

----------------------------------------------------------------------------
(* SolidDataset::create (solid.cpp): the constructor, with the loop that   *)
(* prepares the overviews taken one pass at a time, and writeConfig.       *)
(* solid.pc is the position in create; a double that is a quotient of two  *)
(* integers is kept as the pair of them.                                   *)

(* passes of the overview loop that are followed *)
MaxOverviews == 4

Size2(width, height) == [width |-> width, height |-> height]

(* int(std::round(n / 2.0)) for n >= 0: halves round away from zero *)
roundHalf(n) == (n + 1) \div 2

(* the lambda halve applied to size *)
halve(s) == Size2(roundHalf(s.width), roundHalf(s.height))

Quot(num, den) == [num |-> num, den |-> den]

(* Config::extents(), Config::geoTransform(): boost::get on the variant *)
extentsOf(config) ==
    IF config.extentsOrGeoTransform.which = "extents"
    THEN config.extentsOrGeoTransform.value ELSE nullptr

geoTransformOf(config) ==
    IF config.extentsOrGeoTransform.which = "geoTransform"
    THEN config.extentsOrGeoTransform.value ELSE nullptr

(* geoTransform_ as the constructor sets it; nx and ny are nRasterXSize    *)
(* and nRasterYSize as they are then, before the constructor assigns them  *)
solidGeoTransform(config, nx, ny) ==
    IF extentsOf(config) # nullptr
    THEN GeoTransform(extentsOf(config).ll[1],
                      Quot(size(extentsOf(config)).width, nx), 0,
                      extentsOf(config).ur[2], 0,
                      Quot(-size(extentsOf(config)).height, ny))
    ELSE geoTransformOf(config)

(* the condition of the while loop on size *)
needsOverview(s, tileSize) ==
    s.width >= tileSize.width \/ s.height >= tileSize.height

(* the data types createBlock is called for *)
BlockTypes ==
    {"GDT_Byte", "GDT_UInt16", "GDT_Int16", "GDT_UInt32", "GDT_Int32",
     "GDT_Float32", "GDT_Float64"}

(* SolidDataset::RasterBand::RasterBand(dset, band, overviews) *)
SolidRasterBand(config, band, overviews) ==
    [nBand |-> 1,
     nBlockXSize |-> config.tileSize.width,
     nBlockYSize |-> config.tileSize.height,
     eDataType |-> band.dataType,
     colorInterpretation_ |-> band.colorInterpretation,
     nRasterXSize |-> config.size.width,
     nRasterYSize |-> config.size.height,
     overviews_ |-> overviews,
     block_ |-> [i \in 1..(config.tileSize.width * config.tileSize.height) |->
                    band.value]]

(* the loop over config_.bands: the bands set before one of an unsupported *)
(* data type raises                                                        *)
RECURSIVE setBands(_, _, _, _)
setBands(config, overviews, i, done) ==
    IF i > Len(config.bands) THEN [err |-> "none", bands |-> done]
    ELSE IF config.bands[i].dataType \notin BlockTypes
         THEN [err |-> "UnsupportedDataType", bands |-> done]
         ELSE setBands(config, overviews, i + 1,
                       Append(done,
                              SolidRasterBand(config, config.bands[i], overviews)))

Line(key, value) == [key |-> key, value |-> value]

(* the lines of [solid] up to tileSize *)
solidLines(config) ==
    <<Line("[solid]", <<>>), Line("srs", config.srs),
      Line("size", config.size), Line("tileSize", config.tileSize)>>

(* if (extents) { ... } *)
extentsLines(config) ==
    IF extentsOf(config) # nullptr
    THEN <<Line("extents", extentsOf(config))>> ELSE <<>>

RECURSIVE bandLines(_, _)
bandLines(bs, i) ==
    IF i > Len(bs) THEN <<>>
    ELSE <<Line("[band]", <<>>), Line("value", bs[i].value),
           Line("dataType", bs[i].dataType),
           Line("colorInterpretation", bs[i].colorInterpretation)>>
           \o bandLines(bs, i + 1)

(* writeConfig(file, config): what the file holds and what was raised; the *)
(* else belongs to the if on geoTransform alone                            *)
writeConfigLines(config) ==
    IF geoTransformOf(config) # nullptr
    THEN [err |-> "none",
          file |-> solidLines(config) \o extentsLines(config)
                     \o <<Line("geoTransform", geoTransformOf(config))>>
                     \o bandLines(config.bands, 1)]
    ELSE [err |-> "NeitherExtentsNorGeoTransform",
          file |-> solidLines(config) \o extentsLines(config)]

(* create: new SolidDataset(config), up to the first test of the loop *)
SolidDataset ==
    /\ solid.pc = "create"
    /\ solid' = [solid EXCEPT
          !.pc = "overviews",
          !.dataset = [geoTransform_ |->
                          solidGeoTransform(solid.config,
                                            solid.dataset.nRasterXSize,
                                            solid.dataset.nRasterYSize),
                       nRasterXSize |-> solid.config.size.width,
                       nRasterYSize |-> solid.config.size.height,
                       bands |-> <<>>],
          !.size = halve(solid.config.size),
          !.overviews = <<>>]
    /\ UNCHANGED <<blending, mbtiles>>
    /\ UNCHANGED mvtVars
    /\ UNCHANGED blendVars

(* one pass of the loop: overviews.push_back(size); halve(); *)
pushOverview ==
    /\ solid.pc = "overviews"
    /\ needsOverview(solid.size, solid.config.tileSize)
    /\ Len(solid.overviews) < MaxOverviews
    /\ solid' = [solid EXCEPT !.overviews = Append(solid.overviews, solid.size),
                              !.size = halve(solid.size)]
    /\ UNCHANGED <<blending, mbtiles>>
    /\ UNCHANGED mvtVars
    /\ UNCHANGED blendVars

(* the loop left: the bands are set; an exception leaves create *)
SetBand ==
    /\ solid.pc = "overviews"
    /\ ~needsOverview(solid.size, solid.config.tileSize)
    /\ IF setBands(solid.config, solid.overviews, 1, <<>>).err = "none"
       THEN solid' = [solid EXCEPT
                !.pc = "writeConfig",
                !.dataset.bands =
                    setBands(solid.config, solid.overviews, 1, <<>>).bands]
       ELSE solid' = [solid EXCEPT
                !.pc = "done",
                !.dataset = nullptr,
                !.ret = Raised(setBands(solid.config, solid.overviews,
                                        1, <<>>).err)]
    /\ UNCHANGED <<blending, mbtiles>>
    /\ UNCHANGED mvtVars
    /\ UNCHANGED blendVars

(* writeConfig(path, config); return solid; *)
writeConfig ==
    /\ solid.pc = "writeConfig"
    /\ IF writeConfigLines(solid.config).err = "none"
       THEN solid' = [solid EXCEPT
                !.pc = "done",
                !.file = writeConfigLines(solid.config).file,
                !.ret = [err |-> "none", dataset |-> solid.dataset]]
       ELSE solid' = [solid EXCEPT
                !.pc = "done",
                !.file = writeConfigLines(solid.config).file,
                !.dataset = nullptr,
                !.ret = Raised(writeConfigLines(solid.config).err)]
    /\ UNCHANGED <<blending, mbtiles>>
    /\ UNCHANGED mvtVars
    /\ UNCHANGED blendVars

NextSolid == SolidDataset \/ pushOverview \/ SetBand \/ writeConfig

(* Inputs of create *)

MaxSize == 8

MaxTileSize == 3

SolidBand(value, dataType) ==
    [value |-> value, dataType |-> dataType,
     colorInterpretation |-> "GCI_GrayIndex"]

SolidConfigs ==
    [srs : {"EPSG:3857"},
     size : {Size2(w, h) : w \in 1..MaxSize, h \in 1..MaxSize},
     tileSize : {Size2(w, h) : w \in 1..MaxTileSize, h \in 1..MaxTileSize},
     extentsOrGeoTransform :
         {[which |-> "extents", value |-> Extents2(0, 0, 8, 4)],
          [which |-> "geoTransform",
           value |-> GeoTransform(0, 2, 0, 4, 0, -1)]},
     bands : {<<SolidBand(7, "GDT_Byte")>>,
              <<SolidBand(7, "GDT_Byte"), SolidBand(1, "GDT_Float32")>>,
              <<SolidBand(7, "GDT_Byte"), SolidBand(1, "GDT_CInt16")>>}]

(* the dataset as GDALDataset() leaves it, no file, nothing returned *)
InitSolid ==
    /\ solid \in {[pc |-> "create", config |-> c,
                    dataset |-> [nRasterXSize |-> 512, nRasterYSize |-> 512],
                    size |-> c.size, overviews |-> <<>>, file |-> <<>>,
                    ret |-> Raised("none")] : c \in SolidConfigs}
    /\ blending = Idle
    /\ mbtiles = Idle
    /\ IdleLayer
    /\ IdleBlend

SpecSolid == InitSolid /\ [][NextSolid]_vars

----------------------------------------------------------------------------
(* Creation of the solid dataset: C29, C30 *)

(* create is over *)
Created == solid.pc = "done"

(* every band of the config has a data type a block can be made for *)
BandsSupported ==
    \A b \in DOMAIN solid.config.bands :
        solid.config.bands[b].dataType \in BlockTypes

(* the file holds the line of the alternative the config holds *)
LineWritten ==
    \E l \in DOMAIN solid.file :
        /\ solid.file[l].key = solid.config.extentsOrGeoTransform.which
        /\ solid.file[l].value = solid.config.extentsOrGeoTransform.value

(* C29: create succeeds for every config that holds exactly one of extents *)
(* or geoTransform (every config does): the line of that alternative is    *)
(* written to the config file and the dataset is returned; the error       *)
(* "Neither extents nor geoTransform are set" is not raised                *)
C29_CreateWritesConfig ==
    Created /\ BandsSupported =>
        /\ solid.ret.err = "none"
        /\ solid.ret.dataset # nullptr
        /\ LineWritten

(* a config with a geoTransform was created and its file written *)
GeoTransformCreated ==
    /\ Created
    /\ solid.config.extentsOrGeoTransform.which = "geoTransform"
    /\ solid.ret.err = "none"
    /\ LineWritten
    /\ Len(solid.overviews) = 2

(* the loop is in its pass limit with the condition still true *)
StillHalving ==
    /\ solid.pc = "overviews"
    /\ Len(solid.overviews) = MaxOverviews
    /\ needsOverview(solid.size, solid.config.tileSize)

(* C30: the overview loop of the constructor ends for every dataset size   *)
(* and every tile size of width and height >= 1: it makes no more passes   *)
(* than halving the width and the height down to 1 takes, and each listed  *)
(* overview is strictly smaller than the one before it in at least one     *)
(* dimension                                                               *)
C30_OverviewsShrink ==
    /\ Len(solid.overviews) <= solid.config.size.width + solid.config.size.height
    /\ \A i \in 2..Len(solid.overviews) :
          \/ solid.overviews[i].width < solid.overviews[i - 1].width
          \/ solid.overviews[i].height < solid.overviews[i - 1].height
    /\ ~StillHalving

(* the same where the tile is at least 2 wide and 2 high *)
OverviewsShrinkAboveOne ==
    solid.config.tileSize.width >= 2 /\ solid.config.tileSize.height >= 2
        => C30_OverviewsShrink

=============================================================================
